---- MODULE Spec2Model ----
(***************************************************************************)
(* Model of the file-management API of the SFTP web backend                *)
(* (server/app/api/files.py over server/app/services/s3_service.py).       *)
(*                                                                         *)
(* Strings are sequences of one-character strings, so that the Python      *)
(* string operations of the handlers (lstrip, startswith, split, slicing,  *)
(* replace, unquote) are modelled by what they do to the characters.       *)
(***************************************************************************)
EXTENDS Integers, Sequences, FiniteSets, TLC

VARIABLES store, user_folders, resp, moves, users, connections, sessions

vars == <<store, user_folders, resp, moves, users, connections, sessions>>

----------------------------------------------------------------------------
(* Bounds of the model *)

\* largest number of objects the modelled bucket holds
MaxObjects == 3
\* number of keys one list_objects_v2 response carries (S3: 1000)
PageSize == 2
\* longest file_ids list of a batch request
MaxBatch == 2

----------------------------------------------------------------------------
(* Python string operations *)

EMPTY == << >>

SLASH == "/"

\* s[n:]
Drop(s, n) == IF n >= Len(s) THEN EMPTY ELSE SubSeq(s, n + 1, Len(s))

\* s[:n]
Take(s, n) == IF n >= Len(s) THEN s ELSE SubSeq(s, 1, n)

\* s.startswith(p)
StartsWith(s, p) == Len(p) <= Len(s) /\ SubSeq(s, 1, Len(p)) = p

\* s.endswith(p)
EndsWith(s, p) == Len(p) <= Len(s) /\ SubSeq(s, Len(s) - Len(p) + 1, Len(s)) = p

\* c in s
Contains(s, c) == \E i \in 1..Len(s) : s[i] = c

\* s.lstrip(c)
LStrip(s, c) ==
    LET n == Cardinality({i \in 1..Len(s) : \A j \in 1..i : s[j] = c})
    IN  Drop(s, n)

\* s.rstrip(c)
RStrip(s, c) ==
    LET n == Cardinality({i \in 1..Len(s) : \A j \in i..Len(s) : s[j] = c})
    IN  Take(s, Len(s) - n)

\* s.strip(c)
Strip(s, c) == RStrip(LStrip(s, c), c)

\* s.find(c) for a single character, 1-based; 0 when absent
Find(s, c) ==
    IF Contains(s, c) THEN CHOOSE i \in 1..Len(s) : s[i] = c /\ \A j \in 1..(i - 1) : s[j] # c
    ELSE 0

\* s.rfind(c) for a single character, 1-based; 0 when absent
RFind(s, c) ==
    IF Contains(s, c) THEN CHOOSE i \in 1..Len(s) : s[i] = c /\ \A j \in (i + 1)..Len(s) : s[j] # c
    ELSE 0

\* s.split("/")[0]
FirstSegment(s) == IF Contains(s, SLASH) THEN Take(s, Find(s, SLASH) - 1) ELSE s

\* s.split("/")[-1]
LastSegment(s) == Drop(s, RFind(s, SLASH))

\* "/".join(s.split("/")[:-1])
ParentOf(s) == IF Contains(s, SLASH) THEN Take(s, RFind(s, SLASH) - 1) ELSE EMPTY

\* position of the first occurrence of the substring p in s, 1-based; 0 when absent
FindSub(s, p) ==
    LET hits == {i \in 1..(Len(s) - Len(p) + 1) : SubSeq(s, i, i + Len(p) - 1) = p}
    IN  IF hits = {} THEN 0 ELSE CHOOSE i \in hits : \A j \in hits : i <= j

\* s.replace(old, new, 1)
ReplaceFirst(s, old, new) ==
    LET i == FindSub(s, old)
    IN  IF i = 0 THEN s ELSE Take(s, i - 1) \o new \o Drop(s, i - 1 + Len(old))

\* ASCII codes of the characters the model's strings are made of
Ord(c) ==
    CASE c = "%" -> 37 [] c = "." -> 46 [] c = "/" -> 47 [] c = "2" -> 50
      [] c = "3" -> 51 [] c = "5" -> 53 [] c = ":" -> 58 [] c = "A" -> 65
      [] c = "F" -> 70 [] c = "_" -> 95
      [] c = "d" -> 100 [] c = "e" -> 101 [] c = "f" -> 102 [] c = "g" -> 103
      [] c = "h" -> 104 [] c = "i" -> 105 [] c = "l" -> 108 [] c = "m" -> 109
      [] c = "o" -> 111 [] c = "r" -> 114 [] c = "s" -> 115 [] c = "t" -> 116
      [] c = "u" -> 117 [] c = "x" -> 120

\* a < b in the byte order S3 lists keys in
RECURSIVE KeyLess(_, _)
KeyLess(a, b) ==
    IF b = EMPTY THEN FALSE
    ELSE IF a = EMPTY THEN TRUE
    ELSE IF a[1] # b[1] THEN Ord(a[1]) < Ord(b[1])
    ELSE KeyLess(Tail(a), Tail(b))

\* the keys of a set in S3's listing order
RECURSIVE SortKeys(_)
SortKeys(ks) ==
    IF ks = {} THEN << >>
    ELSE LET k == CHOOSE x \in ks : \A y \in ks \ {x} : KeyLess(x, y)
         IN  <<k>> \o SortKeys(ks \ {k})

Alphabet ==
    {"%", ".", "/", "2", "3", "5", ":", "A", "F", "_", "d", "e", "f", "g", "h", "i", "l", "m", "o",
     "r", "s", "t", "u", "x"}

IsHex(c) == c \in {"2", "3", "5", "A", "F", "d", "e", "f"}

HexVal(c) ==
    CASE c = "2" -> 2 [] c = "3" -> 3 [] c = "5" -> 5 [] c = "A" -> 10 [] c = "F" -> 15
      [] c = "d" -> 13 [] c = "e" -> 14 [] c = "f" -> 15

\* the character of a decoded byte; "?" stands for every character outside Alphabet
Chr(n) == IF \E c \in Alphabet : Ord(c) = n THEN CHOOSE c \in Alphabet : Ord(c) = n ELSE "?"

\* urllib.parse.unquote(s): every %XX with two hex digits becomes the byte XX
RECURSIVE Unquote(_)
Unquote(s) ==
    IF s = EMPTY THEN EMPTY
    ELSE IF s[1] = "%" /\ Len(s) >= 3 /\ IsHex(s[2]) /\ IsHex(s[3])
         THEN <<Chr(16 * HexVal(s[2]) + HexVal(s[3]))>> \o Unquote(Drop(s, 3))
         ELSE <<s[1]>> \o Unquote(Tail(s))

\* urllib.parse.quote(s, safe=''): the client's encoding of an id put in a URL
RECURSIVE Quote(_)
Quote(s) ==
    IF s = EMPTY THEN EMPTY
    ELSE (CASE s[1] = "%" -> <<"%", "2", "5">>
            [] s[1] = "/" -> <<"%", "2", "F">>
            [] s[1] = ":" -> <<"%", "3", "A">>
            [] OTHER -> <<s[1]>>) \o Quote(Tail(s))

----------------------------------------------------------------------------
(* Synthetic ids *)

FILE_TAG == <<"s", "3", "_", "f", "i", "l", "e", ":">>

FOLDER_TAG == <<"s", "3", "_", "f", "o", "l", "d", "e", "r", ":">>

\* file_id[8:]
FILE_TAG_LEN == 8

\* file_id[10:]
FOLDER_TAG_LEN == 10

\* f"s3_file:{key}"
FileId(key) == FILE_TAG \o key

\* f"s3_folder:{key}"
FolderId(key) == FOLDER_TAG \o key

IsFileId(id) == StartsWith(id, FILE_TAG)

IsFolderId(id) == StartsWith(id, FOLDER_TAG)

\* s3_key = file_id[8:]
FileKeyOfId(id) == Drop(id, FILE_TAG_LEN)

\* s3_prefix = file_id[10:]; if not s3_prefix.endswith("/"): s3_prefix += "/"
FolderPrefixOfId(id) ==
    LET p == Drop(id, FOLDER_TAG_LEN)
    IN  IF EndsWith(p, <<SLASH>>) THEN p ELSE p \o <<SLASH>>

\* prefix = path.lstrip("/"); if prefix and not prefix.endswith("/"): prefix += "/"
ToPrefix(path) ==
    LET p == LStrip(path, SLASH)
    IN  IF p # EMPTY /\ ~EndsWith(p, <<SLASH>>) THEN p \o <<SLASH>> ELSE p

\* if not path.startswith("/"): path = "/" + path
NormalizePath(path) == IF StartsWith(path, <<SLASH>>) THEN path ELSE <<SLASH>> \o path

\* f"/home/{current_user.username}"
HomePath(username) == <<"/", "h", "o", "m", "e", "/">> \o username

----------------------------------------------------------------------------
(* The object store and the S3Service adapter.                             *)
(* A world w is what a request works on: the bucket (key -> body), the     *)
(* store calls made so far and the activity events written so far.  A      *)
(* fault f names the boto3 call that raises ClientError during the request *)
(* and the key it raises for.                                              *)

\* the body of a placeholder object, b''
NO_BYTES == << >>

ANYKEY == <<"*">>

NoFault == [kind |-> "none", key |-> ANYKEY]

Fails(f, kind, key) == f.kind = kind /\ (f.key = ANYKEY \/ f.key = key)

World(st) == [store |-> st, calls |-> << >>, log |-> << >>, trail |-> << >>]

\* the store call (kind, key) was made and succeeded or not
Called(w, kind, key, ok) == [w EXCEPT !.calls = Append(@, <<kind, key, ok>>)]

Put(st, key, body) == [k \in DOMAIN st \cup {key} |-> IF k = key THEN body ELSE st[k]]

Remove(st, keys) == [k \in DOMAIN st \ keys |-> st[k]]

KeysUnder(st, prefix) == {k \in DOMAIN st : StartsWith(k, prefix)}

\* s3_client.list_objects_v2(Bucket, Prefix): one response, no continuation
ListObjectsV2(st, prefix) == Take(SortKeys(KeysUnder(st, prefix)), PageSize)

S3_upload_file(w, key, body, f) ==
    LET ok == ~Fails(f, "put", key)
        c == Called(w, "put", key, ok)
    IN  [ok |-> ok, w |-> IF ok THEN [c EXCEPT !.store = Put(@, key, body)] ELSE c]

\* the bytes, or None (ok = FALSE) on ClientError
S3_download_file(w, key, f) ==
    LET ok == ~Fails(f, "get", key) /\ key \in DOMAIN w.store
    IN  [ok |-> ok, body |-> IF ok THEN w.store[key] ELSE NO_BYTES,
         w |-> Called(w, "get", key, ok)]

S3_delete_file(w, key, f) ==
    LET ok == ~Fails(f, "delete", key)
        c == Called(w, "delete", key, ok)
    IN  [ok |-> ok, w |-> IF ok THEN [c EXCEPT !.store = Remove(@, {key})] ELSE c]

S3_list_files(w, prefix, f) ==
    LET ok == ~Fails(f, "list", prefix)
    IN  [objs |-> IF ok THEN ListObjectsV2(w.store, prefix) ELSE << >>,
         w |-> Called(w, "list", prefix, ok)]

S3_file_exists(w, key, f) ==
    LET ok == ~Fails(f, "head", key) /\ key \in DOMAIN w.store
    IN  [ok |-> ok, w |-> Called(w, "head", key, ok)]

S3_create_folder(w, folder_path, f) ==
    LET key == IF EndsWith(folder_path, <<SLASH>>) THEN folder_path ELSE folder_path \o <<SLASH>>
        ok == ~Fails(f, "put", key)
        c == Called(w, "put", key, ok)
    IN  [ok |-> ok, w |-> IF ok THEN [c EXCEPT !.store = Put(@, key, NO_BYTES)] ELSE c]

\* a copy that the store carries out also when source and destination are the same key
CopyOntoItself(w, source_key, dest_key, f) ==
    LET ok == ~Fails(f, "copy", source_key) /\ source_key \in DOMAIN w.store
        c == Called(w, "copy", source_key, ok)
    IN  [ok |-> ok,
         w |-> IF ok THEN [c EXCEPT !.store = Put(@, dest_key, w.store[source_key])] ELSE c]

\* the store refuses the copy of a missing key and the copy of an object onto itself
S3_copy_object(w, source_key, dest_key, f) ==
    LET ok == /\ ~Fails(f, "copy", source_key)
              /\ source_key \in DOMAIN w.store
              /\ source_key # dest_key
        c == Called(w, "copy", source_key, ok)
    IN  [ok |-> ok,
         w |-> IF ok THEN [c EXCEPT !.store = Put(@, dest_key, w.store[source_key])] ELSE c]

\* a move that reports the copy's result and forgets the delete's
MoveReportingCopy(w, source_key, dest_key, f) ==
    LET c == S3_copy_object(w, source_key, dest_key, f)
    IN  IF c.ok THEN [ok |-> TRUE, w |-> S3_delete_file(c.w, source_key, f).w]
        ELSE [ok |-> FALSE, w |-> c.w]

S3_move_object(w, source_key, dest_key, f) ==
    LET c == S3_copy_object(w, source_key, dest_key, f)
    IN  IF c.ok THEN S3_delete_file(c.w, source_key, f) ELSE [ok |-> FALSE, w |-> c.w]

S3_rename_object(w, old_key, new_key, f) == S3_move_object(w, old_key, new_key, f)

\* for obj in objects: copy_object(source_key, dest_key); counts the successes
RECURSIVE CopyEach(_, _, _, _, _, _)
CopyEach(w, objs, source_prefix, dest_prefix, n, f) ==
    IF objs = << >> THEN [n |-> n, w |-> w]
    ELSE LET source_key == Head(objs)
             dest_key == ReplaceFirst(source_key, source_prefix, dest_prefix)
             c == S3_copy_object(w, source_key, dest_key, f)
         IN  CopyEach(c.w, Tail(objs), source_prefix, dest_prefix,
                      IF c.ok THEN n + 1 ELSE n, f)

\* a folder copy that refuses a source prefix under which nothing is listed
CopyFolderRefusingEmpty(w, source_prefix, dest_prefix, f) ==
    LET l == S3_list_files(w, source_prefix, f)
    IN  IF l.objs = << >> THEN [ok |-> FALSE, w |-> l.w]
        ELSE LET r == CopyEach(l.w, l.objs, source_prefix, dest_prefix, 0, f)
             IN  [ok |-> r.n > 0, w |-> r.w]

S3_copy_folder(w, source_prefix, dest_prefix, f) ==
    LET l == S3_list_files(w, source_prefix, f)
    IN  IF l.objs = << >> THEN S3_create_folder(l.w, dest_prefix, f)
        ELSE LET r == CopyEach(l.w, l.objs, source_prefix, dest_prefix, 0, f)
             IN  [ok |-> r.n > 0, w |-> r.w]

\* S3 batch delete limit
DELETE_BATCH == 1000

\* for i in range(0, len(delete_keys), 1000): s3_client.delete_objects(batch);
\* a ClientError ends the loop, a per-key error inside the response is not read
RECURSIVE DeleteBatches(_, _, _)
DeleteBatches(w, keys, f) ==
    IF keys = << >> THEN [ok |-> TRUE, w |-> w]
    ELSE LET batch == Take(keys, DELETE_BATCH)
             ok == ~Fails(f, "delete_objects", batch[1])
             c == Called(w, "delete_objects", batch[1], ok)
             gone == {batch[i] : i \in 1..Len(batch)} \
                     {k \in DOMAIN w.store : Fails(f, "delete_objects_key", k)}
         IN  IF ~ok THEN [ok |-> FALSE, w |-> c]
             ELSE DeleteBatches([c EXCEPT !.store = Remove(@, gone)],
                                Drop(keys, DELETE_BATCH), f)

S3_delete_folder(w, folder_prefix, f) ==
    LET l == S3_list_files(w, folder_prefix, f)
    IN  IF l.objs = << >> THEN [ok |-> TRUE, w |-> l.w]
        ELSE DeleteBatches(l.w, l.objs, f)

S3_move_folder(w, source_prefix, dest_prefix, f) ==
    LET c == S3_copy_folder(w, source_prefix, dest_prefix, f)
    IN  IF c.ok THEN S3_delete_folder(c.w, source_prefix, f) ELSE [ok |-> FALSE, w |-> c.w]

\* activity_logger.log_activity: db.add(activity); db.commit(), which may raise
log_activity(w, action, resource, resource_id, f) ==
    IF Fails(f, "log", resource_id) THEN [ok |-> FALSE, w |-> w]
    ELSE [ok |-> TRUE,
          w |-> [w EXCEPT !.log = Append(@, [action |-> action, resource |-> resource,
                                             resource_id |-> resource_id,
                                             status |-> "success"])]]

----------------------------------------------------------------------------
(* Principals, folder grants and responses *)

ADMIN == [username |-> <<"r">>, role |-> "admin"]

USER == [username |-> <<"u">>, role |-> "user"]

Users == {ADMIN, USER}

\* the rows of the user, deactivated ones included
AllFolders(rows, user) == SelectSeq(rows, LAMBDA r : r.user = user.username)

\* db.query(UserFolder).filter(user_id == current_user.id, is_active == True).all()
ActiveFolders(rows, user) ==
    SelectSeq(rows, LAMBDA r : r.user = user.username /\ r.is_active)

HTTP_400_BAD_REQUEST == 400

HTTP_403_FORBIDDEN == 403

HTTP_404_NOT_FOUND == 404

HTTP_500_INTERNAL_SERVER_ERROR == 500

NoArgs ==
    [path |-> EMPTY, file_ids |-> << >>, target_path |-> EMPTY, name |-> EMPTY,
     file_id |-> EMPTY, fault |-> NoFault]

\* what a handler hands back: the HTTP status, the body's fields, and the world it left
Response(status, data, count, errors, w) ==
    [status |-> status, data |-> data, count |-> count, errors |-> errors, w |-> w]

----------------------------------------------------------------------------
(* list_files *)

\* f"{path.rstrip('/')}/{name}" if path != "/" else f"/{name}"
ChildPath(path, name) ==
    IF path # <<SLASH>> THEN RStrip(path, SLASH) \o <<SLASH>> \o name ELSE <<SLASH>> \o name

Entry(id, name, type, path, key) ==
    [id |-> id, name |-> name, type |-> type, path |-> path, key |-> key]

\* the loop over s3_objects of the admin branch
RECURSIVE ProjectAdmin(_, _, _, _, _)
ProjectAdmin(objs, prefix, path, processed_paths, file_responses) ==
    IF objs = << >> THEN file_responses
    ELSE LET key == Head(objs)
             relative_key == IF prefix # EMPTY THEN Drop(key, Len(prefix)) ELSE key
             first_slash_index == Find(relative_key, SLASH)
             dir_name == Take(relative_key, first_slash_index - 1)
             remaining_path == Drop(relative_key, first_slash_index)
             folder_s3_key == IF prefix # EMPTY THEN prefix \o dir_name ELSE dir_name
         IN  IF key = EMPTY \/ key = prefix
             THEN ProjectAdmin(Tail(objs), prefix, path, processed_paths, file_responses)
             ELSE IF Contains(relative_key, SLASH)
             THEN IF remaining_path # EMPTY /\ dir_name \notin processed_paths
                  THEN ProjectAdmin(Tail(objs), prefix, path, processed_paths \cup {dir_name},
                           Append(file_responses,
                                  Entry(FolderId(folder_s3_key), dir_name, "folder",
                                        ChildPath(path, dir_name), key)))
                  ELSE ProjectAdmin(Tail(objs), prefix, path, processed_paths, file_responses)
             ELSE ProjectAdmin(Tail(objs), prefix, path, processed_paths,
                      Append(file_responses,
                             Entry(FileId(key), relative_key, "file",
                                   ChildPath(path, relative_key), key)))

\* the loop over s3_objects of the regular-user branch
RECURSIVE ProjectUser(_, _, _, _, _)
ProjectUser(objs, prefix, path, processed_paths, file_responses) ==
    IF objs = << >> THEN file_responses
    ELSE LET key == Head(objs)
             relative_key == IF prefix # EMPTY THEN Drop(key, Len(prefix)) ELSE key
             dir_name == FirstSegment(relative_key)
             folder_id == IF path # <<SLASH>>
                          THEN FOLDER_TAG \o RStrip(path, SLASH) \o <<SLASH>> \o dir_name
                          ELSE FOLDER_TAG \o dir_name
         IN  IF key = EMPTY \/ key = prefix
             THEN ProjectUser(Tail(objs), prefix, path, processed_paths, file_responses)
             ELSE IF Contains(relative_key, SLASH)
             THEN IF dir_name \in processed_paths
                  THEN ProjectUser(Tail(objs), prefix, path, processed_paths, file_responses)
                  ELSE ProjectUser(Tail(objs), prefix, path, processed_paths \cup {dir_name},
                           Append(file_responses,
                                  Entry(folder_id, dir_name, "folder",
                                        ChildPath(path, dir_name), key)))
             ELSE ProjectUser(Tail(objs), prefix, path, processed_paths,
                      Append(file_responses,
                             Entry(FileId(key), relative_key, "file",
                                   ChildPath(path, relative_key), key)))

\* folder.folder_path.strip('/').split('/')[-1] or folder.folder_path
FolderName(folder_path) ==
    LET n == LastSegment(Strip(folder_path, SLASH))
    IN  IF n # EMPTY THEN n ELSE folder_path

\* the synthetic root view of a regular user: the home folder, then the assigned folders
RootEntries(user, folders) ==
    <<Entry(FolderId(HomePath(user.username)), <<"h", "o", "m", "e">>, "folder",
            HomePath(user.username), EMPTY)>>
    \o [i \in 1..Len(folders) |->
          Entry(FolderId(folders[i].folder_path), FolderName(folders[i].folder_path),
                "folder", folders[i].folder_path, EMPTY)]

\* the descendant test without the "/" that closes the folder's last segment
StartsWithNoBoundary(path, folder_path) == StartsWith(path, folder_path)

\* path.startswith(folder_path + "/")
StartsWithBoundary(path, folder_path) == StartsWith(path, folder_path \o <<SLASH>>)

\* has_access of list_files: the home directory or one of the assigned folders
HasAccess(user, folders, path) ==
    \/ path = HomePath(user.username)
    \/ StartsWithBoundary(path, HomePath(user.username))
    \/ \E i \in 1..Len(folders) :
          \/ path = folders[i].folder_path
          \/ StartsWithBoundary(path, folders[i].folder_path)

list_files(w, rows, user, raw_path, f) ==
    LET path == NormalizePath(raw_path)
        prefix == ToPrefix(path)
        l == S3_list_files(w, prefix, f)
        folders == ActiveFolders(rows, user)
    IN  IF user.role = "admin"
        THEN Response(200, ProjectAdmin(l.objs, prefix, path, {}, << >>), 0, << >>, l.w)
        ELSE IF path = <<SLASH>>
        THEN Response(200, RootEntries(user, folders), 0, << >>, w)
        ELSE IF ~HasAccess(user, folders, path)
        THEN Response(HTTP_403_FORBIDDEN, << >>, 0, << >>, w)
        ELSE Response(200, ProjectUser(l.objs, prefix, path, {}, << >>), 0, << >>, l.w)

----------------------------------------------------------------------------
(* The batch handlers: delete_files, move_files, copy_files.               *)
(* An error entry keeps the id it is about and why it was appended:        *)
(* "failed" (the service returned False), "invalid" (neither tag) or       *)
(* "exception" (the except clause of the loop body).                       *)

Err(file_id, kind) == [id |-> file_id, kind |-> kind]

\* what one pass of a batch loop did: from the world w, count and errors before the
\* pass to the result a of the pass
Pass(file_id, w, count, errors, a) ==
    [a.w EXCEPT !.trail =
        Append(@, [id |-> file_id, counted |-> a.count - count,
                   errs |-> Len(a.errors) - Len(errors),
                   calls |-> Drop(a.w.calls, Len(w.calls)),
                   before |-> w.store, after |-> a.w.store])]

\* one pass of the loop body once the store call has returned `r`
Tally(r, file_id, action, resource, count, errors, f) ==
    IF r.ok
    THEN LET l == log_activity(r.w, action, resource, file_id, f)
         IN  [w |-> l.w, count |-> count + 1,
              errors |-> IF l.ok THEN errors ELSE Append(errors, Err(file_id, "exception"))]
    ELSE [w |-> r.w, count |-> count, errors |-> Append(errors, Err(file_id, "failed"))]

\* an id without a tag ends the request's work on the store: counted as an error, and
\* the bucket emptied of what the request had not yet reached
SkipAborting(w, file_id, count, errors) ==
    [w |-> [w EXCEPT !.store = Remove(@, DOMAIN @)], count |-> count,
     errors |-> Append(errors, Err(file_id, "invalid"))]

Skip(w, file_id, count, errors) ==
    [w |-> w, count |-> count, errors |-> Append(errors, Err(file_id, "invalid"))]

\* request.target_path.strip("/") joined with the last segment of the source
TargetKey(target_path, name) ==
    LET target_path_clean == Strip(target_path, SLASH)
    IN  IF target_path_clean # EMPTY THEN target_path_clean \o <<SLASH>> \o name ELSE name

\* old_s3_prefix.rstrip("/").split("/")[-1]
FolderNameOf(s3_prefix) == LastSegment(RStrip(s3_prefix, SLASH))

DeleteItem(w, file_id, count, errors, f) ==
    IF IsFileId(file_id)
    THEN Tally(S3_delete_file(w, FileKeyOfId(file_id), f), file_id, "DELETE", "file",
               count, errors, f)
    ELSE IF IsFolderId(file_id)
    THEN Tally(S3_delete_folder(w, FolderPrefixOfId(file_id), f), file_id, "DELETE", "folder",
               count, errors, f)
    ELSE Skip(w, file_id, count, errors)

RECURSIVE DeleteLoop(_, _, _, _, _)
DeleteLoop(w, file_ids, count, errors, f) ==
    IF file_ids = << >> THEN Response(200, << >>, count, errors, w)
    ELSE LET a == DeleteItem(w, Head(file_ids), count, errors, f)
         IN  DeleteLoop(Pass(Head(file_ids), w, count, errors, a), Tail(file_ids),
                        a.count, a.errors, f)

delete_files(w, file_ids, f) == DeleteLoop(w, file_ids, 0, << >>, f)

MoveItem(w, file_id, target_path, count, errors, f) ==
    IF IsFileId(file_id)
    THEN LET old_s3_key == FileKeyOfId(file_id)
             new_s3_key == TargetKey(target_path, LastSegment(old_s3_key))
         IN  Tally(S3_move_object(w, old_s3_key, new_s3_key, f), file_id, "UPLOAD", "file",
                   count, errors, f)
    ELSE IF IsFolderId(file_id)
    THEN LET old_s3_prefix == FolderPrefixOfId(file_id)
             new_s3_prefix == TargetKey(target_path, FolderNameOf(old_s3_prefix)) \o <<SLASH>>
         IN  Tally(S3_move_folder(w, old_s3_prefix, new_s3_prefix, f), file_id, "UPLOAD", "folder",
                   count, errors, f)
    ELSE Skip(w, file_id, count, errors)

RECURSIVE MoveLoop(_, _, _, _, _, _)
MoveLoop(w, file_ids, target_path, count, errors, f) ==
    IF file_ids = << >> THEN Response(200, << >>, count, errors, w)
    ELSE LET a == MoveItem(w, Head(file_ids), target_path, count, errors, f)
         IN  MoveLoop(Pass(Head(file_ids), w, count, errors, a), Tail(file_ids), target_path,
                      a.count, a.errors, f)

move_files(w, file_ids, target_path, f) == MoveLoop(w, file_ids, target_path, 0, << >>, f)

CopyItem(w, file_id, target_path, count, errors, f) ==
    IF IsFileId(file_id)
    THEN LET old_s3_key == FileKeyOfId(file_id)
             new_s3_key == TargetKey(target_path, LastSegment(old_s3_key))
         IN  Tally(S3_copy_object(w, old_s3_key, new_s3_key, f), file_id, "UPLOAD", "file",
                   count, errors, f)
    ELSE IF IsFolderId(file_id)
    THEN LET old_s3_prefix == FolderPrefixOfId(file_id)
             new_s3_prefix == TargetKey(target_path, FolderNameOf(old_s3_prefix)) \o <<SLASH>>
         IN  Tally(S3_copy_folder(w, old_s3_prefix, new_s3_prefix, f), file_id, "UPLOAD", "folder",
                   count, errors, f)
    ELSE Skip(w, file_id, count, errors)

RECURSIVE CopyLoop(_, _, _, _, _, _)
CopyLoop(w, file_ids, target_path, count, errors, f) ==
    IF file_ids = << >> THEN Response(200, << >>, count, errors, w)
    ELSE LET a == CopyItem(w, Head(file_ids), target_path, count, errors, f)
         IN  CopyLoop(Pass(Head(file_ids), w, count, errors, a), Tail(file_ids), target_path,
                      a.count, a.errors, f)

copy_files(w, file_ids, target_path, f) == CopyLoop(w, file_ids, target_path, 0, << >>, f)

----------------------------------------------------------------------------
(* The single-item handlers.  An exception that leaves a handler is the    *)
(* framework's 500 response.                                               *)

\* a downloaded file or one member of the archive
Member(name, body) == [name |-> name, body |-> body]

\* for obj in objects: the objects other than the prefix whose bytes are truthy
RECURSIVE ZipEach(_, _, _, _, _)
ZipEach(w, objs, s3_prefix, members, f) ==
    IF objs = << >> THEN [members |-> members, w |-> w]
    ELSE LET key == Head(objs)
             d == S3_download_file(w, key, f)
         IN  IF key # EMPTY /\ key # s3_prefix
             THEN ZipEach(d.w, Tail(objs), s3_prefix,
                          IF d.ok /\ d.body # NO_BYTES
                          THEN Append(members, Member(Drop(key, Len(s3_prefix)), d.body))
                          ELSE members, f)
             ELSE ZipEach(w, Tail(objs), s3_prefix, members, f)

\* log the success and answer 200, or 500 when the logging raises
Finish(w, action, resource, resource_id, data, f) ==
    LET l == log_activity(w, action, resource, resource_id, f)
    IN  IF l.ok THEN Response(200, data, 0, << >>, l.w)
        ELSE Response(HTTP_500_INTERNAL_SERVER_ERROR, << >>, 0, << >>, l.w)

download_file(w, file_id, f) ==
    LET decoded_file_id == Unquote(file_id)
    IN  IF IsFileId(decoded_file_id)
        THEN LET s3_key == FileKeyOfId(decoded_file_id)
                 d == S3_download_file(w, s3_key, f)
             IN  IF ~d.ok \/ d.body = NO_BYTES
                 THEN Response(HTTP_500_INTERNAL_SERVER_ERROR, << >>, 0, << >>, d.w)
                 ELSE Finish(d.w, "DOWNLOAD", "file", decoded_file_id,
                             <<Member(LastSegment(s3_key), d.body)>>, f)
        ELSE IF IsFolderId(decoded_file_id)
        THEN LET s3_prefix == FolderPrefixOfId(decoded_file_id)
                 l == S3_list_files(w, s3_prefix, f)
                 z == ZipEach(l.w, l.objs, s3_prefix, << >>, f)
             IN  Finish(z.w, "DOWNLOAD", "folder", decoded_file_id, z.members, f)
        ELSE Response(HTTP_404_NOT_FOUND, << >>, 0, << >>, w)

\* s3_key.endswith('/') or '.' not in s3_key.split('/')[-1]
LooksLikeFolder(s3_key) ==
    EndsWith(s3_key, <<SLASH>>) \/ ~Contains(LastSegment(s3_key), ".")

download_file_by_path(w, path, f) ==
    LET key == LStrip(path, SLASH)
    IN  IF key = EMPTY THEN Response(HTTP_400_BAD_REQUEST, << >>, 0, << >>, w)
        ELSE IF LooksLikeFolder(key)
        THEN LET s3_key == IF EndsWith(key, <<SLASH>>) THEN key ELSE key \o <<SLASH>>
                 l == S3_list_files(w, s3_key, f)
                 z == ZipEach(l.w, l.objs, s3_key, << >>, f)
             IN  IF l.objs = << >> THEN Response(HTTP_404_NOT_FOUND, << >>, 0, << >>, l.w)
                 ELSE Finish(z.w, "DOWNLOAD", "folder", path, z.members, f)
        ELSE LET d == S3_download_file(w, key, f)
             IN  IF ~d.ok \/ d.body = NO_BYTES
                 THEN Response(HTTP_404_NOT_FOUND, << >>, 0, << >>, d.w)
                 ELSE Finish(d.w, "DOWNLOAD", "file", path,
                             <<Member(LastSegment(key), d.body)>>, f)

\* path_parts = old_s3_key.split('/'); path_parts[-1] = new_name; '/'.join(path_parts)
Renamed(old_s3_key, new_name) == Take(old_s3_key, RFind(old_s3_key, SLASH)) \o new_name

rename_file_by_path(w, old_path, new_name, f) ==
    LET old_s3_key == LStrip(old_path, SLASH)
        new_s3_key == Renamed(old_s3_key, new_name)
        slash == IF EndsWith(old_s3_key, <<SLASH>>) THEN EMPTY ELSE <<SLASH>>
        r == IF LooksLikeFolder(old_s3_key)
             THEN S3_move_folder(w, old_s3_key \o slash, new_s3_key \o slash, f)
             ELSE S3_move_object(w, old_s3_key, new_s3_key, f)
    IN  IF old_s3_key = EMPTY \/ new_name = EMPTY
        THEN Response(HTTP_400_BAD_REQUEST, << >>, 0, << >>, w)
        ELSE IF ~r.ok THEN Response(HTTP_500_INTERNAL_SERVER_ERROR, << >>, 0, << >>, r.w)
        ELSE Finish(r.w, "UPLOAD", "file", old_path, << >>, f)

\* f"{path_prefix}/{new_name}" if path_prefix else new_name
Sibling(parent, new_name) ==
    IF parent # EMPTY THEN parent \o <<SLASH>> \o new_name ELSE new_name

rename_file(w, file_id, new_name, f) ==
    LET decoded_file_id == Unquote(file_id)
    IN  IF new_name = EMPTY THEN Response(HTTP_400_BAD_REQUEST, << >>, 0, << >>, w)
        ELSE IF IsFileId(decoded_file_id)
        THEN LET old_s3_key == FileKeyOfId(decoded_file_id)
                 new_s3_key == Sibling(ParentOf(old_s3_key), new_name)
                 r == S3_move_object(w, old_s3_key, new_s3_key, f)
             IN  IF ~r.ok THEN Response(HTTP_500_INTERNAL_SERVER_ERROR, << >>, 0, << >>, r.w)
                 ELSE Finish(r.w, "UPLOAD", "file", file_id, << >>, f)
        ELSE IF IsFolderId(decoded_file_id) /\ IsFolderId(file_id)
        THEN LET old_s3_prefix == FolderPrefixOfId(file_id)
                 parent_path == ParentOf(RStrip(old_s3_prefix, SLASH))
                 new_s3_prefix == Sibling(parent_path, new_name) \o <<SLASH>>
                 r == S3_move_folder(w, old_s3_prefix, new_s3_prefix, f)
             IN  IF ~r.ok THEN Response(HTTP_500_INTERNAL_SERVER_ERROR, << >>, 0, << >>, r.w)
                 ELSE Finish(r.w, "UPLOAD", "folder", file_id, << >>, f)
        ELSE IF IsFolderId(decoded_file_id)
        THEN Response(HTTP_500_INTERNAL_SERVER_ERROR, << >>, 0, << >>, w)
        ELSE Response(HTTP_400_BAD_REQUEST, << >>, 0, << >>, w)

create_folder(w, name, path, f) ==
    LET folder_path == ChildPath(path, name)
        s3_folder_path == LStrip(folder_path, SLASH)
        s3_key == s3_folder_path \o <<SLASH>>
        e == S3_file_exists(w, s3_key, f)
        c == S3_create_folder(e.w, s3_folder_path, f)
    IN  IF name = EMPTY THEN Response(HTTP_400_BAD_REQUEST, << >>, 0, << >>, w)
        ELSE IF e.ok THEN Response(HTTP_400_BAD_REQUEST, << >>, 0, << >>, e.w)
        ELSE IF ~c.ok THEN Response(HTTP_500_INTERNAL_SERVER_ERROR, << >>, 0, << >>, c.w)
        ELSE Finish(c.w, "CREATE", "folder", FolderId(s3_key), << >>, f)

upload_file(w, path, filename, body, f) ==
    LET stripped == Strip(path, SLASH)
        s3_path == IF stripped # EMPTY /\ ~EndsWith(stripped, <<SLASH>>)
                   THEN stripped \o <<SLASH>> ELSE stripped
        s3_key == IF s3_path # EMPTY THEN s3_path \o filename ELSE filename
        u == S3_upload_file(w, s3_key, body, f)
    IN  IF ~u.ok THEN Response(HTTP_500_INTERNAL_SERVER_ERROR, << >>, 0, << >>, u.w)
        ELSE Finish(u.w, "UPLOAD", "file", s3_key, << >>, f)

----------------------------------------------------------------------------
(* The requests the model sends *)

pRoot == <<"/">>

pHome == <<"/", "h", "o", "m", "e", "/", "u">>

pHomeD == <<"/", "h", "o", "m", "e", "/", "u", "/", "d">>

pHomeX == <<"/", "h", "o", "m", "e", "/", "u", "x">>

pS == <<"/", "s">>

pSX == <<"/", "s", "x">>

pT == <<"/", "t">>

\* a path whose last segment is ".."
pHomeDots == <<"/", "h", "o", "m", "e", "/", "u", "/", ".", ".">>

nF == <<"f">>

nGT == <<"g", ".", "t">>

nD == <<"d">>

UploadPaths == {pHome, pHomeD, pSX}

FileNames == {nF, nGT}

Bodies == {<<"x">>}

ListPaths == {pRoot, pHome, pHomeD, pHomeX, pS, pSX, pT, Tail(pS), pHomeDots}

FolderPaths == {pHome, pS}

TargetPaths == {pHome, pSX}

NewNames == {nGT}

\* the keys of file f in the home directory and outside it
kHomeF == Tail(pHome) \o <<SLASH>> \o nF

kSxF == Tail(pSX) \o <<SLASH>> \o nF

\* the key of file f in folder d of the home directory
kHomeDF == Tail(pHomeD) \o <<SLASH>> \o nF

\* ids as the listings hand them out, and a string that carries neither tag
Ids == {FileId(kHomeF), FileId(kSxF), FolderId(Tail(pHomeD)), Tail(pHome)}

Batches == UNION {[1..n -> Ids] : n \in 1..MaxBatch}

\* the id as the URL path parameter carries it to the handler: as listed by the admin
\* branch, as listed by the regular-user branch, and percent-encoded
PathParams == Ids \cup {FolderId(pHomeD), Quote(FileId(kHomeF))}

DownloadPaths == {pHome, pHomeD, pT, pSX \o <<SLASH>> \o nGT, pHome \o <<SLASH>> \o nF}

RenamePaths == {pHomeD, pSX \o <<SLASH>> \o nGT}

Fault(kind) == [kind |-> kind, key |-> ANYKEY]

FaultOn(kind, key) == [kind |-> kind, key |-> key]

\* the rows of the user_folders table
GrantS == [user |-> <<"u">>, folder_path |-> pS, permission |-> "read", is_active |-> TRUE]

GrantT == [user |-> <<"u">>, folder_path |-> pT, permission |-> "write", is_active |-> FALSE]

GrantTables == {<<GrantT>>, <<GrantS, GrantT>>}

----------------------------------------------------------------------------
(* The state machine: one action per request handler *)

EmptyBucket == [k \in {} |-> NO_BYTES]

\* no request is being served
Idle ==
    [op |-> "none", user |-> ADMIN, args |-> NoArgs, status |-> 0, data |-> << >>,
     count |-> 0, errors |-> << >>, calls |-> << >>, log |-> << >>, trail |-> << >>,
     pre |-> EmptyBucket]

\* the two server processes that share the bucket
Workers == {"p", "q"}

\* a row of the users table, with the columns' defaults (models/user.py) and the
\* sftp_auth backref: no record, or the one record of the user
UserRow(username, email, password_hash, role) ==
    [username |-> username, email |-> email, password_hash |-> password_hash, role |-> role,
     is_active |-> TRUE, enable_sftp |-> FALSE, private_key |-> EMPTY, sftp_auth |-> << >>]

\* get_password_hash / bcrypt.hashpw: the hash is not the password
Hash(password) == <<"$">> \o password

\* the users table as init_database leaves it: the administrator
SeededUsers == {UserRow(<<"r">>, <<"r", "@">>, Hash(<<"r">>), "admin")}

\* sftp_manager.connections = {}
NoConnections == [c \in {} |-> 0]

\* no move_object call is under way in either process
NoMoves ==
    [pre |-> EmptyBucket,
     at |-> [p \in Workers |->
               [pc |-> "idle", source_key |-> EMPTY, dest_key |-> EMPTY, wrote |-> NO_BYTES,
                replaced |-> NO_BYTES]]]

Init ==
    /\ store = EmptyBucket
    /\ user_folders \in GrantTables
    /\ resp = Idle
    /\ moves = NoMoves
    /\ users = SeededUsers
    /\ connections = NoConnections
    /\ sessions = << >>

\* the handler's response r to the request (op, user, args) becomes the state
Serve(op, user, args, r) ==
    /\ Cardinality(DOMAIN r.w.store) <= MaxObjects
    /\ store' = r.w.store
    /\ resp' = [op |-> op, user |-> user, args |-> args, status |-> r.status, data |-> r.data,
                count |-> r.count, errors |-> r.errors, calls |-> r.w.calls, log |-> r.w.log,
                trail |-> r.w.trail, pre |-> store]
    /\ UNCHANGED <<user_folders, moves, users, connections, sessions>>

\* the response has been sent: the request's context is gone
Respond ==
    /\ resp # Idle
    /\ resp' = Idle
    /\ UNCHANGED <<store, user_folders, moves, users, connections, sessions>>

ListFiles ==
    /\ resp = Idle
    /\ \E user \in Users, path \in ListPaths, f \in {NoFault, Fault("list")} :
          Serve("list_files", user, [NoArgs EXCEPT !.path = path, !.fault = f],
                list_files(World(store), user_folders, user, path, f))

UploadFile ==
    /\ resp = Idle
    /\ \E user \in Users, path \in UploadPaths \cup {pHomeDots}, n \in FileNames, b \in Bodies :
       \E f \in {NoFault, Fault("put"), Fault("log")} :
          Serve("upload_file", user, [NoArgs EXCEPT !.path = path, !.name = n, !.fault = f],
                upload_file(World(store), path, n, b, f))

\* uploads that only fill the bucket
UploadByAdmin ==
    /\ resp = Idle
    /\ \E path \in UploadPaths, n \in FileNames, b \in Bodies :
          Serve("upload_file", ADMIN, [NoArgs EXCEPT !.path = path, !.name = n],
                upload_file(World(store), path, n, b, NoFault))

CreateFolder ==
    /\ resp = Idle
    /\ \E user \in Users, path \in FolderPaths :
       \E f \in {NoFault, Fault("put"), Fault("head"), Fault("log")} :
          Serve("create_folder", user, [NoArgs EXCEPT !.path = path, !.name = nD, !.fault = f],
                create_folder(World(store), nD, path, f))

DownloadFile ==
    /\ resp = Idle
    /\ \E user \in Users, id \in PathParams :
       \E f \in {NoFault, Fault("get"), Fault("list"), Fault("log")} :
          Serve("download_file", user, [NoArgs EXCEPT !.file_id = id, !.fault = f],
                download_file(World(store), id, f))

DownloadFileByPath ==
    /\ resp = Idle
    /\ \E user \in Users, path \in DownloadPaths :
       \E f \in {NoFault, Fault("get"), Fault("list"), Fault("log")} :
          Serve("download_file_by_path", user, [NoArgs EXCEPT !.path = path, !.fault = f],
                download_file_by_path(World(store), path, f))

MoveFaults ==
    {NoFault, Fault("copy"), Fault("delete"), FaultOn("delete", kHomeF), Fault("list"),
     Fault("delete_objects"), Fault("delete_objects_key"), Fault("log")}

RenameFile ==
    /\ resp = Idle
    /\ \E user \in Users, id \in PathParams, n \in NewNames, f \in MoveFaults :
          Serve("rename_file", user, [NoArgs EXCEPT !.file_id = id, !.name = n, !.fault = f],
                rename_file(World(store), id, n, f))

RenameFileByPath ==
    /\ resp = Idle
    /\ \E user \in Users, path \in RenamePaths, n \in NewNames, f \in MoveFaults :
          Serve("rename_file_by_path", user,
                [NoArgs EXCEPT !.path = path, !.name = n, !.fault = f],
                rename_file_by_path(World(store), path, n, f))

DeleteFaults ==
    {NoFault, Fault("delete"), FaultOn("delete", kHomeF), Fault("list"),
     Fault("delete_objects"), Fault("delete_objects_key"), Fault("log")}

DeleteFiles ==
    /\ resp = Idle
    /\ \E user \in Users, ids \in Batches, f \in DeleteFaults :
          Serve("delete_files", user, [NoArgs EXCEPT !.file_ids = ids, !.fault = f],
                delete_files(World(store), ids, f))

MoveFiles ==
    /\ resp = Idle
    /\ \E user \in Users, ids \in Batches, t \in TargetPaths, f \in MoveFaults :
          Serve("move_files", user,
                [NoArgs EXCEPT !.file_ids = ids, !.target_path = t, !.fault = f],
                move_files(World(store), ids, t, f))

CopyFaults ==
    {NoFault, Fault("copy"), FaultOn("copy", kHomeDF), Fault("list"), Fault("put"),
     Fault("log")}

CopyFiles ==
    /\ resp = Idle
    /\ \E user \in Users, ids \in Batches, t \in TargetPaths, f \in CopyFaults :
          Serve("copy_files", user,
                [NoArgs EXCEPT !.file_ids = ids, !.target_path = t, !.fault = f],
                copy_files(World(store), ids, t, f))

Next ==
    \/ Respond
    \/ ListFiles
    \/ UploadFile
    \/ UploadByAdmin
    \/ CreateFolder
    \/ DownloadFile
    \/ DownloadFileByPath
    \/ RenameFile
    \/ RenameFileByPath
    \/ DeleteFiles
    \/ MoveFiles
    \/ CopyFiles

Spec == Init /\ [][Next]_vars

\* the directory projector: uploads, folder creation and listings
NextList == Respond \/ UploadFile \/ CreateFolder \/ ListFiles

SpecList == Init /\ [][NextList]_vars

\* the handlers below never read the user_folders table: one table is enough
InitGranted ==
    /\ store = EmptyBucket
    /\ user_folders = <<GrantS, GrantT>>
    /\ resp = Idle
    /\ moves = NoMoves
    /\ users = SeededUsers
    /\ connections = NoConnections
    /\ sessions = << >>

\* batch deletion over a bucket filled by the admin
NextDelete == Respond \/ UploadByAdmin \/ CreateFolder \/ DeleteFiles

SpecDelete == InitGranted /\ [][NextDelete]_vars

\* moves and renames over a bucket filled by the admin
NextMove == Respond \/ UploadByAdmin \/ MoveFiles \/ RenameFile \/ RenameFileByPath

SpecMove == InitGranted /\ [][NextMove]_vars

\* downloads and listings over a bucket filled by the admin
NextDownload ==
    Respond \/ UploadByAdmin \/ CreateFolder \/ DownloadFile \/ DownloadFileByPath \/ ListFiles

SpecDownload == InitGranted /\ [][NextDownload]_vars

\* batch copies and moves over a bucket filled by the admin
NextFolder == Respond \/ UploadByAdmin \/ CopyFiles \/ MoveFiles

SpecFolder == InitGranted /\ [][NextFolder]_vars

----------------------------------------------------------------------------
(* Two move_object calls in two server processes over the same bucket: the *)
(* steps are the store calls, and nothing orders the calls of one process  *)
(* against those of the other.                                             *)

RaceKeys == {kHomeF, kSxF, kHomeDF}

RaceBodies == {<<"x">>, <<"y">>}

\* the buckets over the keys of the race
RaceStores == UNION {[ks -> RaceBodies] : ks \in SUBSET RaceKeys}

InitRace ==
    /\ store \in RaceStores
    /\ user_folders = <<GrantS, GrantT>>
    /\ resp = Idle
    /\ moves = NoMoves
    /\ users = SeededUsers
    /\ connections = NoConnections
    /\ sessions = << >>

\* both processes enter move_object, each with its source and destination key
BeginMoves ==
    /\ \A p \in Workers : moves.at[p].pc = "idle"
    /\ \E src \in [Workers -> RaceKeys], dst \in [Workers -> RaceKeys] :
          /\ \A p \in Workers : src[p] # dst[p]
          /\ moves' = [pre |-> store,
                       at |-> [p \in Workers |->
                                 [pc |-> "copy", source_key |-> src[p], dest_key |-> dst[p],
                                  wrote |-> NO_BYTES, replaced |-> NO_BYTES]]]
    /\ UNCHANGED <<store, user_folders, resp, users, connections, sessions>>

\* if self.copy_object(source_key, dest_key): ... ; return False
MoveCopy(p) ==
    /\ moves.at[p].pc = "copy"
    /\ LET m == moves.at[p]
           c == S3_copy_object(World(store), m.source_key, m.dest_key, NoFault)
       IN  /\ store' = c.w.store
           /\ moves' = [moves EXCEPT !.at[p].pc = IF c.ok THEN "delete" ELSE "failed",
                                     !.at[p].wrote = IF c.ok THEN store[m.source_key]
                                                     ELSE NO_BYTES,
                                     !.at[p].replaced =
                                         IF c.ok /\ m.dest_key \in DOMAIN store
                                         THEN store[m.dest_key] ELSE NO_BYTES]
    /\ UNCHANGED <<user_folders, resp, users, connections, sessions>>

\* return self.delete_file(source_key)
MoveDelete(p) ==
    /\ moves.at[p].pc = "delete"
    /\ LET d == S3_delete_file(World(store), moves.at[p].source_key, NoFault)
       IN  /\ store' = d.w.store
           /\ moves' = [moves EXCEPT !.at[p].pc = IF d.ok THEN "moved" ELSE "failed"]
    /\ UNCHANGED <<user_folders, resp, users, connections, sessions>>

NextRace == BeginMoves \/ \E p \in Workers : MoveCopy(p) \/ MoveDelete(p)

SpecRace == InitRace /\ [][NextRace]_vars

----------------------------------------------------------------------------
(* A move_folder call in process p while process q uploads one object: the *)
(* steps of the move are its enumeration for copying, its copies, and its   *)
(* delete_folder call; the upload is one put_object call.                  *)

MovedPrefix == Tail(pHomeD) \o <<SLASH>>

MovedTo == Tail(pSX) \o <<SLASH>> \o nD \o <<SLASH>>

UploadKeys == {kHomeDF, MovedPrefix \o nGT, kSxF}

\* p enters move_folder and q enters upload_file
BeginMoveAndUpload ==
    /\ \A w \in Workers : moves.at[w].pc = "idle"
    /\ \E key \in UploadKeys, body \in RaceBodies :
          moves' = [pre |-> store,
                    at |-> [w \in Workers |->
                              IF w = "p"
                              THEN [pc |-> "list", source_key |-> MovedPrefix,
                                    dest_key |-> MovedTo, listed |-> << >>]
                              ELSE [pc |-> "upload", dest_key |-> key, wrote |-> body,
                                    during |-> "none"]]]
    /\ UNCHANGED <<store, user_folders, resp, users, connections, sessions>>

\* copy_folder: objects = self.list_files(source_prefix)
FolderList ==
    /\ moves.at["p"].pc = "list"
    /\ LET l == S3_list_files(World(store), moves.at["p"].source_key, NoFault)
       IN  moves' = [moves EXCEPT !.at["p"].pc = "copy", !.at["p"].listed = l.objs]
    /\ UNCHANGED <<store, user_folders, resp, users, connections, sessions>>

\* copy_folder: the placeholder for an empty listing, else the loop over the objects
FolderCopy ==
    /\ moves.at["p"].pc = "copy"
    /\ LET m == moves.at["p"]
           e == S3_create_folder(World(store), m.dest_key, NoFault)
           r == CopyEach(World(store), m.listed, m.source_key, m.dest_key, 0, NoFault)
           ok == IF m.listed = << >> THEN e.ok ELSE r.n > 0
       IN  /\ store' = IF m.listed = << >> THEN e.w.store ELSE r.w.store
           /\ moves' = [moves EXCEPT !.at["p"].pc = IF ok THEN "delete" ELSE "failed"]
    /\ UNCHANGED <<user_folders, resp, users, connections, sessions>>

\* move_folder: return self.delete_folder(source_prefix)
FolderDelete ==
    /\ moves.at["p"].pc = "delete"
    /\ LET d == S3_delete_folder(World(store), moves.at["p"].source_key, NoFault)
       IN  /\ store' = d.w.store
           /\ moves' = [moves EXCEPT !.at["p"].pc = IF d.ok THEN "moved" ELSE "failed"]
    /\ UNCHANGED <<user_folders, resp, users, connections, sessions>>

\* upload_file: s3_service.upload_file(file.file, s3_key, ...); during keeps where the
\* move stood when the object was put
Upload ==
    /\ moves.at["q"].pc = "upload"
    /\ LET m == moves.at["q"]
           u == S3_upload_file(World(store), m.dest_key, m.wrote, NoFault)
       IN  /\ store' = u.w.store
           /\ moves' = [moves EXCEPT !.at["q"].pc = "done",
                                     !.at["q"].during = moves.at["p"].pc]
    /\ UNCHANGED <<user_folders, resp, users, connections, sessions>>

NextUploadRace == BeginMoveAndUpload \/ FolderList \/ FolderCopy \/ FolderDelete \/ Upload

SpecUploadRace == InitRace /\ [][NextUploadRace]_vars

----------------------------------------------------------------------------
(* Moves and renames of one folder or file, with destinations inside the   *)
(* source folder and names equal to the old name among the inputs.         *)

TreeIds == {FolderId(Tail(pHomeD)), FileId(kHomeF)}

TreeTargets == {pHome, pHomeD, pSX}

TreeNames == {nD, nF, nGT}

TreeFaults == {NoFault, Fault("copy"), FaultOn("copy", kHomeDF), Fault("delete")}

MoveTree ==
    /\ resp = Idle
    /\ \E user \in Users, id \in TreeIds, t \in TreeTargets, f \in TreeFaults :
          Serve("move_files", user,
                [NoArgs EXCEPT !.file_ids = <<id>>, !.target_path = t, !.fault = f],
                move_files(World(store), <<id>>, t, f))

RenameTree ==
    /\ resp = Idle
    /\ \E user \in Users, id \in TreeIds, n \in TreeNames, f \in TreeFaults :
          Serve("rename_file", user, [NoArgs EXCEPT !.file_id = id, !.name = n, !.fault = f],
                rename_file(World(store), id, n, f))

NextTree == Respond \/ UploadByAdmin \/ MoveTree \/ RenameTree

SpecTree == InitGranted /\ [][NextTree]_vars

----------------------------------------------------------------------------
(* POST /auth/register (api/auth.py).  The route declares no dependency on  *)
(* get_current_user: the handler never learns who calls it.                *)

\* the sender of a request that carries no token
NOBODY == [username |-> EMPTY, role |-> "anonymous"]

Callers == {NOBODY, USER, ADMIN}

\* largest number of rows of the users table
MaxUsers == 3

\* the JSON bodies sent to register; role "absent" is a body without the key
UserData ==
    [username : {<<"r">>, <<"u">>, <<"a">>}, email : {<<"r", "@">>, <<"u", "@">>},
     password : {<<"p">>}, role : {"absent", "user", "admin"}]

\* user_data.get("role", "user")
RoleOf(user_data) == IF user_data.role = "absent" THEN "user" ELSE user_data.role

register(w, rows, user_data, f) ==
    IF \E u \in rows : u.username = user_data.username
    THEN [status |-> HTTP_400_BAD_REQUEST, users |-> rows, w |-> w]
    ELSE IF \E u \in rows : u.email = user_data.email
    THEN [status |-> HTTP_400_BAD_REQUEST, users |-> rows, w |-> w]
    ELSE LET user == UserRow(user_data.username, user_data.email,
                             Hash(user_data.password), RoleOf(user_data))
             l == Finish(w, "CREATE", "user", user_data.username, << >>, f)
         IN  [status |-> l.status, users |-> rows \cup {user}, w |-> l.w]

Register ==
    /\ resp = Idle
    /\ \E caller \in Callers, user_data \in UserData, f \in {NoFault, Fault("log")} :
          LET r == register(World(store), users, user_data, f)
          IN  /\ Cardinality(r.users) <= MaxUsers
              /\ users' = r.users
              /\ resp' = [Idle EXCEPT !.op = "register", !.user = caller,
                                      !.args = [user_data |-> user_data, fault |-> f],
                                      !.status = r.status, !.log = r.w.log]
    /\ UNCHANGED <<store, user_folders, moves, connections, sessions>>

NextRegister == Respond \/ Register

SpecRegister == Init /\ [][NextRegister]_vars

----------------------------------------------------------------------------
(* The SFTP connection registry (api/sftp.py).  connections maps a         *)
(* connection id to the session its entry holds; sessions is every SSH     *)
(* session the process has opened, in order, each "open" or "closed".      *)

HTTP_401_UNAUTHORIZED == 401

HTTP_408_REQUEST_TIMEOUT == 408

\* largest number of SSH sessions the process opens
MaxSessions == 3

\* f"{username}@{host}:{port}"
ConnectionId(username, host, port) == username \o <<"@">> \o host \o <<":">> \o port

\* SFTPConnectionManager.create_connection; outcome is what the remote server does to
\* ssh_client.connect
create_connection(conns, sess, host, port, username, outcome) ==
    IF outcome = "ok"
    THEN [status |-> 200, id |-> ConnectionId(username, host, port),
          connections |-> [c \in DOMAIN conns \cup {ConnectionId(username, host, port)} |->
                             IF c = ConnectionId(username, host, port) THEN Len(sess) + 1
                             ELSE conns[c]],
          sessions |-> Append(sess, "open")]
    ELSE [status |-> IF outcome = "auth" THEN HTTP_401_UNAUTHORIZED
                     ELSE HTTP_408_REQUEST_TIMEOUT,
          id |-> EMPTY, connections |-> conns, sessions |-> sess]

\* SFTPConnectionManager.get_connection: the entry's session, 0 for None
get_connection(conns, connection_id) ==
    IF connection_id \in DOMAIN conns THEN conns[connection_id] ELSE 0

\* SFTPConnectionManager.close_connection
close_connection(conns, sess, connection_id) ==
    IF connection_id \in DOMAIN conns
    THEN [ok |-> TRUE,
          connections |-> [c \in DOMAIN conns \ {connection_id} |-> conns[c]],
          sessions |-> [sess EXCEPT ![conns[connection_id]] = "closed"]]
    ELSE [ok |-> FALSE, connections |-> conns, sessions |-> sess]

\* the parameters of ActivityLogger.log_activity and those without a default
LOG_PARAMETERS ==
    {"db", "user", "action", "resource", "request", "status", "resource_id", "file_path",
     "details"}

LOG_REQUIRED == {"db", "user", "action", "resource", "request"}

\* activity_logger = ActivityLogger(db); await activity_logger.log_activity(**keywords):
\* the class defines no __init__, so a constructor argument raises TypeError, as does a
\* keyword that is no parameter or a missing required parameter
ActivityLogger(constructor_args, keywords) ==
    /\ constructor_args = 0
    /\ keywords \subseteq LOG_PARAMETERS
    /\ LOG_REQUIRED \subseteq keywords

\* the keywords the SFTP handlers pass to log_activity
SFTP_LOG_KEYWORDS == {"user_id", "action", "resource_type", "resource_id", "details", "request"}

\* what a handler of the registry hands back
SftpResult(status, conns, sess) == [status |-> status, connections |-> conns, sessions |-> sess]

create_sftp_connection(conns, sess, connection_data, current_user, outcome) ==
    LET r == create_connection(conns, sess, connection_data.host, connection_data.port,
                               connection_data.username, outcome)
    IN  IF connection_data.host = EMPTY \/ connection_data.username = EMPTY
        THEN SftpResult(HTTP_400_BAD_REQUEST, conns, sess)
        ELSE IF current_user.private_key = EMPTY
        THEN SftpResult(HTTP_400_BAD_REQUEST, conns, sess)
        ELSE IF r.status # 200 THEN SftpResult(r.status, r.connections, r.sessions)
        ELSE IF ~ActivityLogger(1, SFTP_LOG_KEYWORDS)
        THEN SftpResult(HTTP_500_INTERNAL_SERVER_ERROR, r.connections, r.sessions)
        ELSE SftpResult(200, r.connections, r.sessions)

\* DELETE /sftp/connections/{connection_id}
close_sftp_connection(conns, sess, connection_id) ==
    LET r == close_connection(conns, sess, connection_id)
    IN  IF ~r.ok THEN SftpResult(HTTP_404_NOT_FOUND, r.connections, r.sessions)
        ELSE IF ~ActivityLogger(1, SFTP_LOG_KEYWORDS)
        THEN SftpResult(HTTP_500_INTERNAL_SERVER_ERROR, r.connections, r.sessions)
        ELSE SftpResult(200, r.connections, r.sessions)

\* GET /sftp/connections/{connection_id}/files: listdir_attr on a closed session raises
list_remote_files(conns, sess, connection_id) ==
    LET n == get_connection(conns, connection_id)
    IN  IF n = 0 THEN SftpResult(HTTP_404_NOT_FOUND, conns, sess)
        ELSE IF sess[n] # "open" THEN SftpResult(HTTP_500_INTERNAL_SERVER_ERROR, conns, sess)
        ELSE SftpResult(200, conns, sess)

\* a user who holds a private key, and the users table with that user
KEYED_USER ==
    [UserRow(<<"u">>, <<"u", "@">>, Hash(<<"p">>), "user") EXCEPT !.private_key = <<"k">>]

KeyedUsers == SeededUsers \cup {KEYED_USER}

Hosts == {EMPTY, <<"h">>}

Ports == {<<"2", "2">>}

RemoteUsers == {EMPTY, <<"u">>, <<"a">>}

ConnectionData == [host : Hosts, port : Ports, username : RemoteUsers]

ConnectionIds == {ConnectionId(u, <<"h">>, <<"2", "2">>) : u \in {<<"u">>, <<"a">>, <<"x">>}}

InitSftp ==
    /\ store = EmptyBucket
    /\ user_folders = <<GrantS, GrantT>>
    /\ resp = Idle
    /\ moves = NoMoves
    /\ users = KeyedUsers
    /\ connections = NoConnections
    /\ sessions = << >>

\* the result r of a registry handler becomes the state
ServeSftp(op, current_user, args, r) ==
    /\ Len(r.sessions) <= MaxSessions
    /\ connections' = r.connections
    /\ sessions' = r.sessions
    /\ resp' = [Idle EXCEPT !.op = op, !.user = current_user, !.args = args,
                            !.status = r.status,
                            !.pre = [connections |-> connections, sessions |-> sessions]]
    /\ UNCHANGED <<store, user_folders, moves, users>>

CreateSftpConnection ==
    /\ resp = Idle
    /\ \E current_user \in users, connection_data \in ConnectionData :
       \E outcome \in {"ok", "auth", "timeout"} :
          ServeSftp("create_sftp_connection", current_user,
                    [connection_data |-> connection_data, outcome |-> outcome],
                    create_sftp_connection(connections, sessions, connection_data,
                                           current_user, outcome))

CloseSftpConnection ==
    /\ resp = Idle
    /\ \E current_user \in users, connection_id \in ConnectionIds :
          ServeSftp("close_connection", current_user, [connection_id |-> connection_id],
                    close_sftp_connection(connections, sessions, connection_id))

ListRemoteFiles ==
    /\ resp = Idle
    /\ \E current_user \in users, connection_id \in ConnectionIds :
          ServeSftp("list_remote_files", current_user, [connection_id |-> connection_id],
                    list_remote_files(connections, sessions, connection_id))

NextSftp == Respond \/ CreateSftpConnection \/ CloseSftpConnection \/ ListRemoteFiles

SpecSftp == InitSftp /\ [][NextSftp]_vars

----------------------------------------------------------------------------
(* The custom identity provider of the SFTP server                         *)
(* (services/sftp_custom_auth.py).  A response is << >> for the empty dict *)
(* (failure) and a one-element sequence for the dict that grants access.   *)

\* settings.AWS_S3_BUCKET
S3_BUCKET == <<"b">>

\* len(password) > 100
PASSWORD_LIMIT == 100

\* bcrypt.checkpw(password, hashed): "raise" stands for the ValueError of a malformed hash
checkpw(password, hashed) ==
    IF ~StartsWith(hashed, <<"$">>) THEN "raise"
    ELSE IF hashed = Hash(password) THEN "match" ELSE "mismatch"

\* a row of the sftp_auth table
SftpAuthRow(auth_method, sftp_password_hash, is_active) ==
    [auth_method |-> auth_method, sftp_password_hash |-> sftp_password_hash,
     is_active |-> is_active, last_sftp_login |-> FALSE]

\* _auth_failure_response()
AuthFailure(rows) == [response |-> << >>, users |-> rows]

\* sftp_auth.last_sftp_login = datetime.utcnow(); db.commit(); return response
AuthSuccess(rows, user) ==
    [response |-> <<[HomeDirectoryType |-> "LOGICAL",
                     Target |-> <<SLASH>> \o S3_BUCKET \o <<SLASH>> \o user.username]>>,
     users |-> (rows \ {user}) \cup
               {[user EXCEPT !.sftp_auth = <<[@[1] EXCEPT !.last_sftp_login = TRUE]>>]}]

authenticate_user(rows, username, password) ==
    IF ~\E u \in rows : u.username = username THEN AuthFailure(rows)
    ELSE LET user == CHOOSE u \in rows : u.username = username
             sftp_auth == SelectSeq(user.sftp_auth, LAMBDA a : a.is_active)
         IN  IF ~user.enable_sftp THEN AuthFailure(rows)
             ELSE IF ~user.is_active THEN AuthFailure(rows)
             ELSE IF sftp_auth = << >> THEN AuthFailure(rows)
             ELSE IF password # EMPTY /\ sftp_auth[1].auth_method = "password"
             THEN IF sftp_auth[1].sftp_password_hash = EMPTY THEN AuthFailure(rows)
                  ELSE IF checkpw(password, sftp_auth[1].sftp_password_hash) # "match"
                  THEN AuthFailure(rows)
                  ELSE AuthSuccess(rows, user)
             ELSE AuthSuccess(rows, user)

\* an absent or over-long password is left to the server's SSH key authentication
lambda_handler(rows, event) ==
    IF event.password = EMPTY \/ Len(event.password) > PASSWORD_LIMIT THEN AuthFailure(rows)
    ELSE authenticate_user(rows, event.username, event.password)

Passwords == {EMPTY, <<"p">>, <<"w">>}

PasswordHashes == {EMPTY, Hash(<<"p">>), <<"h">>}

\* the sftp_auth backref of a user: no record, or one
SftpAuths ==
    {<< >>} \cup
    {<<SftpAuthRow(m, h, a)>> : m \in {"password", "ssh_key"}, h \in PasswordHashes,
                                a \in BOOLEAN}

\* the users tables the provider runs over: the administrator and user u
AuthTables ==
    {SeededUsers \cup
       {[UserRow(<<"u">>, <<"u", "@">>, Hash(<<"p">>), "user")
            EXCEPT !.is_active = act, !.enable_sftp = en, !.sftp_auth = sa]} :
     act \in BOOLEAN, en \in BOOLEAN, sa \in SftpAuths}

AuthEvents == [username : {<<"u">>, <<"a">>}, password : Passwords]

InitAuth ==
    /\ store = EmptyBucket
    /\ user_folders = <<GrantS, GrantT>>
    /\ resp = Idle
    /\ moves = NoMoves
    /\ users \in AuthTables
    /\ connections = NoConnections
    /\ sessions = << >>

LambdaHandler ==
    /\ resp = Idle
    /\ \E event \in AuthEvents :
          LET r == lambda_handler(users, event)
          IN  /\ users' = r.users
              /\ resp' = [Idle EXCEPT !.op = "lambda_handler", !.user = NOBODY,
                                      !.args = event, !.data = r.response]
    /\ UNCHANGED <<store, user_folders, moves, connections, sessions>>

NextAuth == Respond \/ LambdaHandler

SpecAuth == InitAuth /\ [][NextAuth]_vars

----------------------------------------------------------------------------
(* Vocabulary of the properties *)

\* the "/"-separated segments of a path
RECURSIVE Segments(_)
Segments(s) ==
    IF ~Contains(s, SLASH) THEN <<s>>
    ELSE <<Take(s, Find(s, SLASH) - 1)>> \o Segments(Drop(s, Find(s, SLASH)))

\* path equals base or descends from it, segment by segment
Within(path, base) ==
    LET ps == Segments(path)
        bs == Segments(base)
    IN  Len(bs) <= Len(ps) /\ SubSeq(ps, 1, Len(bs)) = bs

\* the folder paths of the active grants of a user
GrantedPaths(user) ==
    {user_folders[i].folder_path : i \in {j \in 1..Len(user_folders) :
        user_folders[j].user = user.username /\ user_folders[j].is_active}}

\* the logical path lies in the user's home directory or in one of the granted folders
InScope(user, path) ==
    \/ Within(path, HomePath(user.username))
    \/ \E g \in GrantedPaths(user) : Within(path, g)

\* the logical path of a key or prefix
LogicalPath(key) == <<SLASH>> \o RStrip(key, SLASH)

Range(q) == {q[i] : i \in 1..Len(q)}

Tagged(id) == IsFileId(id) \/ IsFolderId(id)

\* the key or prefix an id addresses
Addressed(id) == IF IsFileId(id) THEN FileKeyOfId(id) ELSE FolderPrefixOfId(id)

\* the part of a key after a prefix
Remainder(key, prefix) == Drop(key, Len(prefix))

AllOk(calls) == \A i \in 1..Len(calls) : calls[i][3]

\* the copy of key k succeeded and the delete of k that followed it failed
CopiedNotDeleted(calls, k) ==
    \E i \in 1..(Len(calls) - 1) :
        calls[i] = <<"copy", k, TRUE>> /\ calls[i + 1] = <<"delete", k, FALSE>>

----------------------------------------------------------------------------
(* C1 *)

\* C1: a regular user's delete_files, move_files or copy_files request that names an
\* existing object outside /home/<username> and outside the active folder grants is
\* rejected with 403 and leaves the bucket as it was.
C1_OutOfScopeMutationRejected ==
    (/\ resp.op \in {"delete_files", "move_files", "copy_files"}
     /\ resp.args.fault = NoFault
     /\ resp.user.role # "admin"
     /\ \E id \in Range(resp.args.file_ids) :
           /\ Tagged(id)
           /\ KeysUnder(resp.pre, Addressed(id)) # {}
           /\ ~InScope(resp.user, LogicalPath(Addressed(id))))
    => (resp.status = HTTP_403_FORBIDDEN /\ store = resp.pre)

----------------------------------------------------------------------------
(* C2 *)

\* C2: for a principal with role user, list_files of a path other than "/" that lies
\* neither in /home/<username> nor in an active folder grant (segment by segment)
\* answers 403: no entries, no success, no store call.
C2_ListOutsideScopeDenied ==
    (/\ resp.op = "list_files"
     /\ resp.user.role = "user"
     /\ NormalizePath(resp.args.path) # pRoot
     /\ ~InScope(resp.user, NormalizePath(resp.args.path)))
    => (resp.status = HTTP_403_FORBIDDEN /\ resp.data = << >> /\ resp.calls = << >>)

\* the user holds an active grant on /s and is denied /sx
C2_Witness ==
    /\ resp.op = "list_files"
    /\ resp.user = USER
    /\ resp.args.path = pSX
    /\ pS \in GrantedPaths(USER)
    /\ resp.status = HTTP_403_FORBIDDEN

----------------------------------------------------------------------------
(* C3 *)

\* C3: every entry of a successful listing carries an id that the handlers decode to the
\* entry's own object key (FILE) or to the store prefix of the entry's path (FOLDER),
\* also after the id went through the handlers' unquote.
C3_ListedIdsDecodeToKeys ==
    (resp.op = "list_files" /\ resp.status = 200)
    => \A e \in Range(resp.data) :
          IF e.type = "file"
          THEN /\ IsFileId(e.id)
               /\ FileKeyOfId(e.id) = e.key
               /\ FileKeyOfId(Unquote(e.id)) = e.key
          ELSE /\ IsFolderId(e.id)
               /\ FolderPrefixOfId(e.id) = ToPrefix(e.path)
               /\ FolderPrefixOfId(Unquote(e.id)) = ToPrefix(e.path)

----------------------------------------------------------------------------
(* C4 *)

\* C4: when the copy of a FILE's move succeeded and the delete of its source failed, the
\* item is not counted, one error entry is returned for it, and the object is stored
\* under the source key and under the destination key; a rename in that case fails
\* with 500 and leaves the object under both keys.
C4_MoveDeleteFailureReported ==
    /\ resp.op = "move_files" =>
          \A i \in 1..Len(resp.trail) :
             LET p == resp.trail[i]
                 k == FileKeyOfId(p.id)
                 dst == TargetKey(resp.args.target_path, LastSegment(k))
             IN  (IsFileId(p.id) /\ CopiedNotDeleted(p.calls, k))
                 => /\ p.counted = 0
                    /\ p.errs = 1
                    /\ Err(p.id, "failed") \in Range(resp.errors)
                    /\ resp.count < Len(resp.args.file_ids)
                    /\ k \in DOMAIN p.after /\ dst \in DOMAIN p.after
                    /\ p.after[dst] = p.before[k]
    /\ resp.op = "rename_file" =>
          LET k == FileKeyOfId(Unquote(resp.args.file_id))
              dst == Sibling(ParentOf(k), resp.args.name)
          IN  (IsFileId(Unquote(resp.args.file_id)) /\ CopiedNotDeleted(resp.calls, k))
              => /\ resp.status = HTTP_500_INTERNAL_SERVER_ERROR
                 /\ k \in DOMAIN store /\ dst \in DOMAIN store
    /\ resp.op = "rename_file_by_path" =>
          LET k == LStrip(resp.args.path, SLASH)
              dst == Renamed(k, resp.args.name)
          IN  (~LooksLikeFolder(k) /\ CopiedNotDeleted(resp.calls, k))
              => /\ resp.status = HTTP_500_INTERNAL_SERVER_ERROR
                 /\ k \in DOMAIN store /\ dst \in DOMAIN store

\* a batch move in which the second item's copy succeeded and its delete failed, after a
\* first item that moved
C4_Witness ==
    /\ resp.op = "move_files"
    /\ Len(resp.trail) = 2
    /\ resp.trail[1].counted = 1
    /\ IsFileId(resp.trail[2].id)
    /\ CopiedNotDeleted(resp.trail[2].calls, FileKeyOfId(resp.trail[2].id))
    /\ resp.trail[2].errs = 1
    /\ resp.count = 1

----------------------------------------------------------------------------
(* C5 *)

\* the keys a listing of prefix has to show: all keys under it but the prefix itself
Listable(st, prefix) == KeysUnder(st, prefix) \ {prefix}

\* the keys that are direct children of the prefix
DirectFiles(st, prefix) ==
    {k \in Listable(st, prefix) : ~Contains(Remainder(k, prefix), SLASH)}

\* the first segments of the keys that have further path after a "/"
DeeperSegments(st, prefix) ==
    {FirstSegment(Remainder(k, prefix)) : k \in
        {x \in Listable(st, prefix) :
            /\ Contains(Remainder(x, prefix), SLASH)
            /\ Drop(Remainder(x, prefix), Find(Remainder(x, prefix), SLASH)) # EMPTY}}

\* a listing of a concrete path the store answered
AnsweredListing ==
    /\ resp.op = "list_files"
    /\ resp.status = 200
    /\ resp.args.fault = NoFault
    /\ ~(resp.user.role = "user" /\ NormalizePath(resp.args.path) = pRoot)

EntriesOf(type) == {i \in 1..Len(resp.data) : resp.data[i].type = type}

\* C5: a listing of prefix P yields exactly one FILE entry per key whose remainder after P
\* has no "/", and exactly one FOLDER entry per distinct first segment among the keys
\* whose remainder has further path after a "/".
C5_ListingIsExactProjection ==
    AnsweredListing =>
       LET prefix == ToPrefix(NormalizePath(resp.args.path))
       IN  /\ {resp.data[i].key : i \in EntriesOf("file")} = DirectFiles(store, prefix)
           /\ Cardinality(EntriesOf("file")) = Cardinality(DirectFiles(store, prefix))
           /\ {resp.data[i].name : i \in EntriesOf("folder")} = DeeperSegments(store, prefix)
           /\ Cardinality(EntriesOf("folder")) = Cardinality(DeeperSegments(store, prefix))

----------------------------------------------------------------------------
(* C6 *)

\* C6: a listing shows every object stored under the prefix (as its FILE entry or inside
\* a FOLDER entry), and a folder delete that reports success leaves no key under the
\* folder's prefix, however many keys the prefix holds.
C6_EnumerationIsComplete ==
    /\ AnsweredListing =>
          LET prefix == ToPrefix(NormalizePath(resp.args.path))
          IN  \A k \in Listable(store, prefix) :
                 ~EndsWith(k, <<SLASH>>) =>
                    \E e \in Range(resp.data) : e.name = FirstSegment(Remainder(k, prefix))
    /\ (resp.op = "delete_files" /\ resp.args.fault = NoFault) =>
          \A i \in 1..Len(resp.trail) :
             LET p == resp.trail[i]
             IN  (IsFolderId(p.id) /\ p.counted = 1)
                 => KeysUnder(p.after, FolderPrefixOfId(p.id)) = {}

----------------------------------------------------------------------------
(* C7 *)

Malformed(ids) == {i \in 1..Len(ids) : ~Tagged(ids[i])}

\* C7: in a batch delete every id that carries neither tag yields exactly one error entry,
\* no store call and no change of the bucket; every tagged id is still worked on (its
\* store call is made, and when the store does what it is asked the id is counted and
\* the file's key, or every key listed under the folder's prefix, is gone); the
\* request answers 200.  When nothing fails, deleted_count is the number of tagged ids
\* and the error list holds one entry per untagged id.
C7_MalformedIdsInBatchDelete ==
    resp.op = "delete_files" =>
       LET ids == resp.args.file_ids
       IN  /\ resp.status = 200
           /\ Len(resp.trail) = Len(ids)
           /\ \A i \in 1..Len(ids) :
                 LET p == resp.trail[i]
                 IN  /\ p.id = ids[i]
                     /\ IF ~Tagged(p.id)
                        THEN /\ p.errs = 1 /\ p.counted = 0
                             /\ p.calls = << >>
                             /\ p.after = p.before
                        ELSE /\ p.calls # << >>
                             /\ AllOk(p.calls) => p.counted = 1
                             /\ (AllOk(p.calls) /\ IsFileId(p.id))
                                   => FileKeyOfId(p.id) \notin DOMAIN p.after
                             /\ (AllOk(p.calls) /\ IsFolderId(p.id)
                                   /\ resp.args.fault.kind # "delete_objects_key")
                                   => \A k \in Range(ListObjectsV2(p.before, FolderPrefixOfId(p.id))) :
                                         k \notin DOMAIN p.after
           /\ Cardinality({j \in 1..Len(resp.errors) : resp.errors[j].kind = "invalid"})
                 = Cardinality(Malformed(ids))
           /\ resp.args.fault = NoFault =>
                 /\ resp.count = Len(ids) - Cardinality(Malformed(ids))
                 /\ Len(resp.errors) = Cardinality(Malformed(ids))

\* an untagged id first, then a file id whose object existed and is deleted and counted
C7_Witness ==
    /\ resp.op = "delete_files"
    /\ Len(resp.trail) = 2
    /\ ~Tagged(resp.trail[1].id)
    /\ resp.trail[1].errs = 1
    /\ IsFileId(resp.trail[2].id)
    /\ FileKeyOfId(resp.trail[2].id) \in DOMAIN resp.pre
    /\ FileKeyOfId(resp.trail[2].id) \notin DOMAIN store
    /\ resp.count = 1
    /\ Len(resp.errors) = 1

----------------------------------------------------------------------------
(* C8 *)

\* C8: in a batch delete, move or copy every id is processed and yields exactly one
\* outcome: the success count plus the number of error entries is the number of ids.
C8_OneOutcomePerId ==
    resp.op \in {"delete_files", "move_files", "copy_files"} =>
       /\ Len(resp.trail) = Len(resp.args.file_ids)
       /\ \A i \in 1..Len(resp.trail) : resp.trail[i].counted + resp.trail[i].errs = 1
       /\ resp.count + Len(resp.errors) = Len(resp.args.file_ids)

----------------------------------------------------------------------------
(* C9 *)

\* C9: downloading a FOLDER whose prefix matches no object answers 404, by id and by
\* path, while listing that prefix answers 200 with no entries.
C9_EmptyFolderDownloadNotFound ==
    /\ (/\ resp.op = "download_file"
        /\ resp.args.fault = NoFault
        /\ IsFolderId(Unquote(resp.args.file_id))
        /\ KeysUnder(store, FolderPrefixOfId(Unquote(resp.args.file_id))) = {})
       => resp.status = HTTP_404_NOT_FOUND
    /\ (/\ resp.op = "download_file_by_path"
        /\ resp.args.fault = NoFault
        /\ LStrip(resp.args.path, SLASH) # EMPTY
        /\ KeysUnder(store, ToPrefix(resp.args.path)) = {})
       => resp.status = HTTP_404_NOT_FOUND
    /\ (AnsweredListing /\ KeysUnder(store, ToPrefix(NormalizePath(resp.args.path))) = {})
       => resp.data = << >>

----------------------------------------------------------------------------
(* C10 *)

\* C10: a listing of a concrete path answers 200 with no entries when the store answered
\* and holds no key under the prefix, and never answers 200 when the store's list call
\* failed.
C10_ListingFailsWhenStoreFails ==
    resp.op = "list_files" =>
       /\ (AnsweredListing /\ KeysUnder(store, ToPrefix(NormalizePath(resp.args.path))) = {})
             => resp.data = << >>
       /\ (\E i \in 1..Len(resp.calls) : resp.calls[i][1] = "list" /\ ~resp.calls[i][3])
             => resp.status # 200

----------------------------------------------------------------------------
(* C11 *)

\* what the request in resp would have been answered had nothing failed
Unfaulted ==
    IF resp.op = "delete_files"
    THEN delete_files(World(resp.pre), resp.args.file_ids, NoFault)
    ELSE IF resp.op = "create_folder"
    THEN create_folder(World(resp.pre), resp.args.name, resp.args.path, NoFault)
    ELSE Response(resp.status, resp.data, resp.count, resp.errors, World(resp.pre))

\* C11: when recording the activity event raises, the delete or folder creation that
\* triggered it is answered as it is when the event is recorded: same status, same
\* success count, same error entries.
C11_LogFailureKeepsOutcome ==
    (resp.op \in {"delete_files", "create_folder"} /\ resp.args.fault.kind = "log") =>
       /\ resp.status = Unfaulted.status
       /\ resp.count = Unfaulted.count
       /\ resp.errors = Unfaulted.errors

----------------------------------------------------------------------------
(* C12 *)

\* the recorded events about resource id with status st
Events(id, st) ==
    {j \in 1..Len(resp.log) : resp.log[j].resource_id = id /\ resp.log[j].status = st}

\* the passes of the batch loop over id that were counted (c = 1) or not (c = 0)
Items(id, c) ==
    {i \in 1..Len(resp.trail) : resp.trail[i].id = id /\ resp.trail[i].counted = c}

\* C12: while events can be recorded, a batch delete records one event per pass over a
\* tagged id, with status success for a counted pass and failure for a failed one, and
\* a folder creation or upload that reached the store records exactly one event.
C12_EveryAttemptRecorded ==
    resp.args.fault.kind # "log" =>
       /\ resp.op = "delete_files" =>
             \A id \in {x \in Range(resp.args.file_ids) : Tagged(x)} :
                /\ Cardinality(Events(id, "success")) = Cardinality(Items(id, 1))
                /\ Cardinality(Events(id, "failure")) = Cardinality(Items(id, 0))
       /\ (resp.op \in {"create_folder", "upload_file"} /\ resp.calls # << >>) =>
             Len(resp.log) = 1

----------------------------------------------------------------------------
(* C13 *)

\* the active grants of the user that cover the path
Covering(user, path) ==
    {i \in 1..Len(user_folders) :
        /\ user_folders[i].user = user.username
        /\ user_folders[i].is_active
        /\ Within(path, user_folders[i].folder_path)}

\* the path lies outside the home directory and every grant covering it is a read grant
ReadOnlyFor(user, path) ==
    /\ ~Within(path, HomePath(user.username))
    /\ Covering(user, path) # {}
    /\ \A i \in Covering(user, path) : user_folders[i].permission = "read"

\* C13: a regular user may list a path that only a read grant covers, and a folder
\* creation or upload by that user under that path is answered 403 and leaves the
\* bucket as it was.
C13_ReadGrantAllowsReadingOnly ==
    (resp.user.role = "user" /\ resp.args.fault = NoFault) =>
       /\ (resp.op = "list_files" /\ ReadOnlyFor(resp.user, NormalizePath(resp.args.path)))
             => resp.status = 200
       /\ (/\ resp.op \in {"create_folder", "upload_file"}
           /\ ReadOnlyFor(resp.user, resp.args.path))
             => (resp.status = HTTP_403_FORBIDDEN /\ store = resp.pre)

----------------------------------------------------------------------------
(* C14 *)

\* the destination prefix of folder id under the request's target path
DestPrefix(id) ==
    TargetKey(resp.args.target_path, FolderNameOf(FolderPrefixOfId(id))) \o <<SLASH>>

\* the passes of the batch loop over a folder id
FolderPasses == {i \in 1..Len(resp.trail) : IsFolderId(resp.trail[i].id)}

\* the store listed the source prefix of the pass and the keys under it fill no more
\* than one page
ListedWhole(p) ==
    /\ \E j \in 1..Len(p.calls) : p.calls[j] = <<"list", FolderPrefixOfId(p.id), TRUE>>
    /\ Cardinality(KeysUnder(p.before, FolderPrefixOfId(p.id))) <= PageSize

\* C14: a folder item of a batch copy whose source prefix the store listed in full is
\* counted only if every key that was under the source prefix is afterwards stored,
\* with the same bytes, under the destination prefix followed by the key's remainder;
\* if the copy of a key failed the item is not counted.
C14_FolderCopyIsComplete ==
    resp.op = "copy_files" =>
       \A i \in {j \in FolderPasses : ListedWhole(resp.trail[j])} :
          LET p == resp.trail[i]
              src == FolderPrefixOfId(p.id)
          IN  /\ p.counted = 1 =>
                    \A k \in KeysUnder(p.before, src) :
                       LET d == DestPrefix(p.id) \o Remainder(k, src)
                       IN  d \in DOMAIN p.after /\ p.after[d] = p.before[k]
              /\ (\E j \in 1..Len(p.calls) : p.calls[j][1] = "copy" /\ ~p.calls[j][3])
                    => p.counted = 0

----------------------------------------------------------------------------
(* C15 *)

\* the passes of the batch loop over a folder id under whose prefix no key was stored
EmptyFolderPasses ==
    {i \in FolderPasses :
        KeysUnder(resp.trail[i].before, FolderPrefixOfId(resp.trail[i].id)) = {}}

\* C15: a folder item of a batch copy or move whose source prefix matches no key is
\* counted whenever the store calls made for it succeed, and changes the bucket by at
\* most the zero-byte placeholder key of the destination prefix: every key stored
\* before is stored after with the same bytes, and no other key appears.
C15_EmptyFolderCopyMoveFrame ==
    resp.op \in {"copy_files", "move_files"} =>
       \A i \in EmptyFolderPasses :
          LET p == resp.trail[i]
              d == DestPrefix(p.id)
          IN  /\ AllOk(p.calls) => p.counted = 1
              /\ DOMAIN p.after \subseteq DOMAIN p.before \cup {d}
              /\ DOMAIN p.before \subseteq DOMAIN p.after
              /\ \A k \in DOMAIN p.before : p.after[k] = p.before[k]
              /\ d \in DOMAIN p.after => p.after[d] = NO_BYTES

\* a move of the empty folder home/u/d to /sx over a bucket that holds other keys:
\* counted, and the placeholder sx/d/ is the only change
C15_Witness ==
    /\ resp.op = "move_files"
    /\ resp.args.fault = NoFault
    /\ Len(resp.trail) = 1
    /\ 1 \in EmptyFolderPasses
    /\ resp.count = 1
    /\ resp.pre # EmptyBucket
    /\ DOMAIN store = DOMAIN resp.pre \cup {DestPrefix(resp.trail[1].id)}
    /\ DestPrefix(resp.trail[1].id) \notin DOMAIN resp.pre

----------------------------------------------------------------------------
(* C16 *)

\* the prefix of the folder the request in resp downloads, EMPTY when it downloads none
ArchivedPrefix ==
    IF resp.op = "download_file" /\ IsFolderId(Unquote(resp.args.file_id))
    THEN FolderPrefixOfId(Unquote(resp.args.file_id))
    ELSE IF /\ resp.op = "download_file_by_path"
            /\ LStrip(resp.args.path, SLASH) # EMPTY
            /\ LooksLikeFolder(LStrip(resp.args.path, SLASH))
    THEN ToPrefix(resp.args.path)
    ELSE EMPTY

\* C16: the archive of a successfully answered folder download, when the store listed
\* the prefix in full, holds exactly one entry per object stored under the prefix other
\* than the prefix itself, named by the key's remainder and holding the object's bytes.
C16_ArchiveHoldsEveryObject ==
    (/\ ArchivedPrefix # EMPTY
     /\ resp.status = 200
     /\ <<"list", ArchivedPrefix, TRUE>> \in Range(resp.calls)
     /\ Cardinality(KeysUnder(store, ArchivedPrefix)) <= PageSize)
    => /\ Range(resp.data) =
             {Member(Remainder(k, ArchivedPrefix), store[k]) :
                 k \in Listable(store, ArchivedPrefix)}
       /\ Len(resp.data) = Cardinality(Listable(store, ArchivedPrefix))

----------------------------------------------------------------------------
(* C17 *)

\* C17: list_files of "/" by a regular user answers 200 without any store call; the
\* entries are folders that stand for no store key: first the home directory, then one
\* entry per active grant of the user, and none for a deactivated grant.
C17_RootViewIsSynthetic ==
    (/\ resp.op = "list_files"
     /\ resp.user.role = "user"
     /\ NormalizePath(resp.args.path) = pRoot)
    => /\ resp.status = 200
       /\ resp.calls = << >>
       /\ Len(resp.data) = 1 + Cardinality({i \in 1..Len(user_folders) :
             user_folders[i].user = resp.user.username /\ user_folders[i].is_active})
       /\ resp.data[1].path = HomePath(resp.user.username)
       /\ {resp.data[j].path : j \in 2..Len(resp.data)} = GrantedPaths(resp.user)
       /\ \A j \in 1..Len(resp.data) :
             resp.data[j].type = "folder" /\ resp.data[j].key = EMPTY

\* user u, holding the active grant /s and the deactivated grant /t, lists "/" over a
\* bucket that holds objects
C17_Witness ==
    /\ resp.op = "list_files"
    /\ resp.user = USER
    /\ resp.args.path = pRoot
    /\ user_folders = <<GrantS, GrantT>>
    /\ store # EmptyBucket
    /\ Len(resp.data) = 2
    /\ resp.data[2].path = pS

----------------------------------------------------------------------------
(* C18 *)

\* every list call of the pass was answered by the store
ListAnswered(p) == \A j \in 1..Len(p.calls) : p.calls[j][1] = "list" => p.calls[j][3]

\* C18: a folder item of a batch move is counted only if none of the keys the store
\* listed under the source prefix is still stored afterwards.
C18_FolderMoveLeavesNoSource ==
    resp.op = "move_files" =>
       \A i \in {j \in FolderPasses : ListAnswered(resp.trail[j])} :
          LET p == resp.trail[i]
          IN  p.counted = 1 =>
                 \A k \in Range(ListObjectsV2(p.before, FolderPrefixOfId(p.id))) :
                    k \notin DOMAIN p.after

----------------------------------------------------------------------------
(* C19 *)

\* C19: in an answered listing of a concrete path every listed key other than the prefix
\* whose remainder contains "/" is represented by a FOLDER entry named by the
\* remainder's first segment, the placeholder key of an empty folder included.
C19_SlashKeyYieldsFolder ==
    AnsweredListing =>
       LET prefix == ToPrefix(NormalizePath(resp.args.path))
       IN  \A k \in Range(ListObjectsV2(store, prefix)) \ {prefix} :
              Contains(Remainder(k, prefix), SLASH) =>
                 \E e \in Range(resp.data) :
                    e.type = "folder" /\ e.name = FirstSegment(Remainder(k, prefix))

----------------------------------------------------------------------------
(* C20 *)

\* both move_object calls have returned
BothReturned == \A p \in Workers : moves.at[p].pc \in {"moved", "failed"}

\* last write wins: a copy of one of the moves replaced an object holding the bytes b
\* by different bytes
Overwritten(b) ==
    \E p \in Workers : moves.at[p].replaced = b /\ moves.at[p].wrote # b

\* C20: when two concurrent move_object calls have returned, whatever the order of their
\* store calls, the bytes of every object stored before, unless a copy replaced an
\* object holding them by different bytes, are still stored under some key.
C20_RacingMovesKeepContent ==
    BothReturned =>
       \A k \in DOMAIN moves.pre :
          \/ Overwritten(moves.pre[k])
          \/ \E k2 \in DOMAIN store : store[k2] = moves.pre[k]

----------------------------------------------------------------------------
(* C21 *)

DOTDOT == <<".", ".">>

\* the path or key has a ".." segment
HasDotDot(s) == DOTDOT \in Range(Segments(s))

\* C21: a request of list_files, upload_file, create_folder, download-by-path or
\* rename-by-path whose path has a ".." segment makes no store call on a prefix or key
\* that has a ".." segment, and leaves no such key in the bucket.
C21_DotDotNeverReachesStore ==
    (/\ resp.op \in {"list_files", "upload_file", "create_folder", "download_file_by_path",
                     "rename_file_by_path"}
     /\ resp.args.fault = NoFault
     /\ HasDotDot(resp.args.path))
    => /\ \A i \in 1..Len(resp.calls) : ~HasDotDot(resp.calls[i][2])
       /\ \A k \in DOMAIN store \ DOMAIN resp.pre : ~HasDotDot(k)

----------------------------------------------------------------------------
(* C22 *)

\* the key the by-path request in resp names
PathKey == LStrip(resp.args.path, SLASH)

\* the by-path request in resp names a stored, non-empty object whose last segment has
\* no "."
NamesDotlessObject ==
    /\ resp.args.fault = NoFault
    /\ PathKey \in DOMAIN resp.pre
    /\ resp.pre[PathKey] # NO_BYTES
    /\ ~Contains(LastSegment(PathKey), ".")

\* the by-path request in resp names no object but a folder whose name has a "."
NamesDottedFolder ==
    /\ resp.args.fault = NoFault
    /\ PathKey \notin DOMAIN resp.pre
    /\ Contains(LastSegment(PathKey), ".")
    /\ KeysUnder(resp.pre, ToPrefix(resp.args.path)) # {}

\* C22: download-by-path of a stored object whose last segment has no "." answers 200
\* with exactly that object, and rename-by-path of it moves exactly that object to the
\* new name; applied to a folder whose name has a ".", they work on the keys under the
\* folder's prefix.
C22_KindNotInferredFromName ==
    /\ (resp.op = "download_file_by_path" /\ NamesDotlessObject)
          => /\ resp.status = 200
             /\ resp.data = <<Member(LastSegment(PathKey), resp.pre[PathKey])>>
    /\ (resp.op = "rename_file_by_path" /\ NamesDotlessObject
          /\ Renamed(PathKey, resp.args.name) # PathKey)
          => /\ PathKey \notin DOMAIN store
             /\ Renamed(PathKey, resp.args.name) \in DOMAIN store
             /\ store[Renamed(PathKey, resp.args.name)] = resp.pre[PathKey]
    /\ (resp.op = "download_file_by_path" /\ NamesDottedFolder)
          => /\ resp.status = 200
             /\ \A i \in 1..Len(resp.data) :
                   ToPrefix(resp.args.path) \o resp.data[i].name \in DOMAIN resp.pre
    /\ (resp.op = "rename_file_by_path" /\ NamesDottedFolder)
          => \A k \in Range(ListObjectsV2(resp.pre, ToPrefix(resp.args.path))) :
                k \notin DOMAIN store

----------------------------------------------------------------------------
(* C23 *)

\* the step answers a register request of a caller who is not an authenticated admin
RegisterByNonAdmin ==
    /\ resp = Idle
    /\ resp'.op = "register"
    /\ resp'.args.fault = NoFault
    /\ resp'.user.role # "admin"

\* C23: a register request from a caller that is not an authenticated admin leaves the
\* users table as it was; in particular it adds no row whose role is admin.
C23_RegisterIsAdminOnly == [][RegisterByNonAdmin => users' = users]_vars

----------------------------------------------------------------------------
(* C24 *)

\* the sessions that were opened and have not been closed
OpenSessions == {n \in 1..Len(sessions) : sessions[n] = "open"}

\* the sessions the registry's entries hold
Registered == {connections[c] : c \in DOMAIN connections}

\* C24: every session that was opened and not yet closed is held by an entry of the
\* registry, also after a second connection was created for the same
\* username@host:port; and close_connection of an absent id answers not-found and
\* changes neither the registry nor a session.
C24_RegistryKeepsOpenSessions ==
    /\ OpenSessions \subseteq Registered
    /\ (resp.op = "close_connection"
          /\ resp.args.connection_id \notin DOMAIN resp.pre.connections)
          => /\ resp.status = HTTP_404_NOT_FOUND
             /\ connections = resp.pre.connections
             /\ sessions = resp.pre.sessions

----------------------------------------------------------------------------
(* C29 *)

\* C29: a connect request that is answered with an error leaves the registry and the
\* sessions as they were before the request: no connection opened for it stays
\* registered or open.
C29_FailedConnectLeavesNoSession ==
    (resp.op = "create_sftp_connection" /\ resp.status # 200)
    => /\ connections = resp.pre.connections
       /\ sessions = resp.pre.sessions

----------------------------------------------------------------------------
(* C25 *)

\* the source and destination prefix of the folder move or rename in resp
TreeSource == FolderPrefixOfId(IF resp.op = "move_files" THEN resp.args.file_ids[1]
                               ELSE resp.args.file_id)

TreeDest ==
    IF resp.op = "move_files" THEN DestPrefix(resp.args.file_ids[1])
    ELSE Sibling(ParentOf(RStrip(TreeSource, SLASH)), resp.args.name) \o <<SLASH>>

\* resp answers the move or the rename of one folder
FolderMoved ==
    \/ resp.op = "move_files" /\ Len(resp.args.file_ids) = 1
          /\ IsFolderId(resp.args.file_ids[1])
    \/ resp.op = "rename_file" /\ IsFolderId(resp.args.file_id)

\* the object stored under key k before the request is stored under k, or under the
\* destination prefix followed by k's remainder, after it
KeptOrMoved(k) ==
    \/ k \in DOMAIN store /\ store[k] = resp.pre[k]
    \/ LET d == TreeDest \o Remainder(k, TreeSource)
       IN  d \in DOMAIN store /\ store[d] = resp.pre[k]

\* C25: after the move or rename of a folder to a destination outside it, whatever copies
\* failed, every object that was stored under the source prefix is stored under the
\* source prefix or under the destination prefix.
C25_FolderMoveKeepsUncopied ==
    (FolderMoved /\ ~StartsWith(TreeDest, TreeSource))
    => \A k \in KeysUnder(resp.pre, TreeSource) : KeptOrMoved(k)

----------------------------------------------------------------------------
(* C26 *)

\* the request in resp reported its one item as failed
ItemFailed ==
    IF resp.op = "move_files" THEN resp.count = 0 /\ Len(resp.errors) = 1
    ELSE resp.status # 200

\* C26: the move or rename of a folder to a destination prefix inside its own source
\* prefix either reports the item as failed and leaves the bucket as it was, or leaves
\* every object that was stored under the source prefix stored, under its key or under
\* the destination prefix.
C26_MoveIntoItselfLosesNothing ==
    (FolderMoved /\ StartsWith(TreeDest, TreeSource))
    => \/ ItemFailed /\ store = resp.pre
       \/ \A k \in KeysUnder(resp.pre, TreeSource) : KeptOrMoved(k)

----------------------------------------------------------------------------
(* C27 *)

\* the move and the upload have both returned, and the object was put under the moved
\* folder's prefix after the move's enumeration for copying and before its enumeration
\* for deleting
UploadedDuringMove ==
    /\ moves.at["p"].pc \in {"moved", "failed"}
    /\ moves.at["q"].pc = "done"
    /\ moves.at["q"].during \in {"copy", "delete"}
    /\ StartsWith(moves.at["q"].dest_key, moves.at["p"].source_key)

\* C27: an object uploaded under a folder's prefix while a move of that folder is between
\* its two enumerations is stored, with the uploaded bytes, under its key or under the
\* destination prefix, once both requests have returned.
C27_UploadDuringMoveIsKept ==
    UploadedDuringMove =>
       LET k == moves.at["q"].dest_key
           d == moves.at["p"].dest_key \o Remainder(k, moves.at["p"].source_key)
       IN  \/ k \in DOMAIN store /\ store[k] = moves.at["q"].wrote
           \/ d \in DOMAIN store /\ store[d] = moves.at["q"].wrote

----------------------------------------------------------------------------
(* C28 *)

\* the row of the users table the request in resp names may log in with the request's
\* password: active, SFTP enabled, an active sftp_auth record, and the password matches
\* the record's stored hash
MayLogIn(u) ==
    /\ u.username = resp.args.username
    /\ u.is_active
    /\ u.enable_sftp
    /\ u.sftp_auth # << >>
    /\ u.sftp_auth[1].is_active
    /\ checkpw(resp.args.password, u.sftp_auth[1].sftp_password_hash) = "match"

\* C28: the identity provider answers a password authentication request with a non-empty
\* response only if the user exists, is active, has SFTP enabled, has an active sftp_auth
\* record, and the password matches the hash stored in that record, whatever the
\* record's auth_method.
C28_PasswordMustMatchStoredHash ==
    (resp.op = "lambda_handler" /\ resp.data # << >>) => \E u \in users : MayLogIn(u)

----------------------------------------------------------------------------
(* C30 *)

\* the key of the file the request in resp moves or renames, and the key it computes as
\* the destination
MovedFileKey ==
    IF resp.op = "move_files" THEN FileKeyOfId(resp.args.file_ids[1])
    ELSE FileKeyOfId(Unquote(resp.args.file_id))

MovedFileDest ==
    IF resp.op = "move_files"
    THEN TargetKey(resp.args.target_path, LastSegment(MovedFileKey))
    ELSE Sibling(ParentOf(MovedFileKey), resp.args.name)

\* resp answers the move or the rename of one stored file onto its own key
MovedOntoItself ==
    /\ \/ resp.op = "move_files" /\ Len(resp.args.file_ids) = 1
             /\ IsFileId(resp.args.file_ids[1])
       \/ resp.op = "rename_file" /\ IsFileId(Unquote(resp.args.file_id))
    /\ MovedFileDest = MovedFileKey
    /\ MovedFileKey \in DOMAIN resp.pre

====
